---- MODULE Spec2Model ----
(***************************************************************************)
(* A model of the plant-sim simulation core: the organism life cycle       *)
(* (Plant.tick), the occupancy/shadow raster (Grid) and the per-tick       *)
(* pipeline of Simulation.step().                                          *)
(*                                                                         *)
(* Numbers.  The source computes in IEEE doubles; the model computes in    *)
(* fixed point with these units:                                           *)
(*   lengths (heights, girth, leaf size, branch length) : 1/10   ("deci")  *)
(*   opacity, shadow, efficiencies, ratios              : 1/1000 ("milli") *)
(*   energy, biomass                                    : 1/10^6 ("micro") *)
(* Integer traits (leafCount, germinationSpeed, maturityAge, maxAge) and   *)
(* ages, ticks and ids are plain integers.  A product of two scaled values *)
(* is divided back to the unit of its result with \div (which floors).     *)
(***************************************************************************)
EXTENDS Integers, Sequences, FiniteSets, TLC

VARIABLES
    plants,       \* Simulation.plants : sequence of Plant records
    seeds,        \* Simulation.seeds  : sequence of Seed records
    occupied,     \* Grid.occupied     : cell index -> -1 | -2 | plant id
    shadow,       \* Grid.shadow       : cell index -> accumulated opacity (milli)
    tick,         \* Simulation.tick
    deathCounts,  \* Simulation.deathCounts
    nextPlantId,  \* module-level counter of Plant.ts
    pc,           \* position inside step(): which phase runs next
    pi,           \* loop index of the phase's `for (const plant of this.plants)`
    rk,           \* reproduce(): remaining iterations of `for (i < numSeeds)`
    newSeeds,     \* reproduce(): the local array newSeeds
    calls,        \* number of tick() calls made on a Plant used on its own
    onPlantAdded,    \* Simulation.onPlantAdded   : TRUE when a handler is set
    onPlantRemoved,  \* Simulation.onPlantRemoved : TRUE when a handler is set
    addedCalls,      \* the calls made to the onPlantAdded handler, in order
    removedCalls,    \* the calls made to the onPlantRemoved handler, in order
    config,          \* Simulation.config
    lastCall,        \* the last call made to a Grid or Genome function: its name, arguments and return value
    energyScaleDiv,  \* module-level ENERGY_SCALE of Simulation.ts, as the divisor 1 / ENERGY_SCALE
    twin             \* Simulation.plants of the same Simulation in a process where no setter is called

vars == <<plants, seeds, occupied, shadow, tick, deathCounts, nextPlantId,
          pc, pi, rk, newSeeds, calls,
          onPlantAdded, onPlantRemoved, addedCalls, removedCalls, config, lastCall,
          energyScaleDiv, twin>>

\* no Grid or Genome function has been called yet
NoCall == [op |-> "none", args |-> <<>>, ret |-> <<>>]

\* the two event fields of Simulation
handlers == <<onPlantAdded, onPlantRemoved>>

\* the module-level tuning state and the reference run it is compared with
tuning == <<energyScaleDiv, twin>>

----------------------------------------------------------------------------
(* Bounds of the model *)

GridWidth == 3
GridHeight == 2
InitialPlants == 2
MaxPlants == 3
MaxTick == 3
MaxCalls == 5
LateSteps == 3

----------------------------------------------------------------------------
(* Plant.ts: stages, causes, tuning constants *)

Seed == 0
Seedling == 1
Growing == 2
Mature == 3
Dead == 4

NoCause == "null"
DeathCauses == {"energy", "age", "topple", "germination"}

\* export let TRUNK_MASS_SCALE = 0.01 : as a divisor (1 / 0.01)
TRUNK_MASS_DIV == 100
\* export let BRANCH_MASS_SCALE = 0.005 : as a divisor (1 / 0.005)
BRANCH_MASS_DIV == 200
\* export let MAINTENANCE_RATE = 0.01 (milli)
MAINTENANCE_RATE == 10
\* export let GROWTH_COST_RATE = 0.05 : micro energy per deci*deci
GROWTH_COST_RATE == 500
\* const LEAF_GROWTH_COST_RATE = 0.003 : micro energy per milli leaf weight
LEAF_GROWTH_COST_RATE == 3
\* GERMINATION_BURN_BASE * GERMINATION_BURN_MULTIPLIER = 0.3 * 10 (micro)
GERMINATION_BURN == 3000000
\* const TOPPLE_STABILITY_FACTOR = 0.1 : as a divisor
TOPPLE_STABILITY_DIV == 10
\* export let TOPPLE_BASE_CHANCE = 0.005 (milli: 5)
TOPPLE_BASE_CHANCE == 5
\* const MATURITY_HEIGHT_FRACTION = 0.9 (tenths)
MATURITY_HEIGHT_TENTHS == 9
\* export let UNREALIZED_PENALTY = 0.5 (milli)
UNREALIZED_PENALTY == 500
\* const SEED_BUDGET_BUFFER = 0.5 : as a divisor
SEED_BUDGET_DIV == 2

\* Simulation.ts
\* export let ENERGY_SCALE = 0.01 : as a divisor
ENERGY_SCALE_DIV == 100
\* const REPRO_INTERVAL_FRACTION = 0.05 : as a divisor
REPRO_INTERVAL_DIV == 20
MAX_SEED_AGE == 150
\* export let SEED_DISPERSAL_SCALE = 1.0 (milli)
SEED_DISPERSAL_SCALE == 1000
\* grid.occupy(seed.x, seed.y, -2)
SeedMarker == -2
\* Int32Array(...).fill(-1)
Vacant == -1

----------------------------------------------------------------------------
(* Arithmetic helpers *)

Max(a, b) == IF a >= b THEN a ELSE b
Min(a, b) == IF a <= b THEN a ELSE b
Abs(a) == IF a >= 0 THEN a ELSE -a

\* Math.floor(n / d) and Math.ceil(n / d) for d > 0 (\div floors in TLA+)
FloorDiv(n, d) == n \div d
CeilDiv(n, d) == -((-n) \div d)

\* floor(sqrt(n)) for 0 <= n < 2^31 (46340 = floor(sqrt(2^31 - 1)))
RECURSIVE SqrtSearch(_, _, _)
SqrtSearch(n, lo, hi) ==
    IF lo >= hi THEN lo
    ELSE LET mid == (lo + hi + 1) \div 2
         IN  IF mid * mid <= n THEN SqrtSearch(n, mid, hi)
             ELSE SqrtSearch(n, lo, mid - 1)
ISqrt(n) == SqrtSearch(n, 0, Min(n, 46340))

\* Math.pow(x, 1.5) for x in deci, result in milli: (x/10)^1.5 * 1000 = x * sqrt(1000 x)
Pow15(x) == x * ISqrt(1000 * x)
\* Math.pow(x, 2.5) for x in deci, result in milli: (x/10)^2.5 * 1000 = x^2 * sqrt(10 x)
Pow25(x) == x * x * ISqrt(10 * x)
\* Math.pow(g, 2.3) for g in deci, result in micro, tabulated for the girths of Profiles
Pow23(g) ==
    CASE g = 1  -> 5012
      [] g = 10 -> 1000000
      [] g = 20 -> 4924578
\* 1 - Math.exp(-e) for e in milli, result in milli, tabulated
OneMinusExp(e) ==
    CASE e = 500  -> 393
      [] e = 1000 -> 632
      [] e = 2000 -> 865

----------------------------------------------------------------------------
(* Genome.ts: decoded traits.  decodeTraits maps a gene vector to a Traits  *)
(* record; createRandomGenome and mutateGenome draw the genes at random.    *)
(* The model draws the decoded record from Profiles, three points of the    *)
(* range of decodeTraits.                                                   *)

Weed ==
    [ maxHeight |-> 20, growthRate |-> 5, trunkGirth |-> 1, leafSize |-> 10,
      leafCount |-> 2, branchLength |-> 10, leafOpacity |-> 500,
      seedRange |-> 1000, seedEnergy |-> 10000, germinationSpeed |-> 1,
      photoEfficiency |-> 1000, maturityAge |-> 1, maxAge |-> 3 ]

Shrub ==
    [ maxHeight |-> 30, growthRate |-> 10, trunkGirth |-> 10, leafSize |-> 10,
      leafCount |-> 1, branchLength |-> 10, leafOpacity |-> 500,
      seedRange |-> 1000, seedEnergy |-> 50000, germinationSpeed |-> 2,
      photoEfficiency |-> 1000, maturityAge |-> 2, maxAge |-> 4 ]

Starver ==
    [ maxHeight |-> 20, growthRate |-> 2, trunkGirth |-> 20, leafSize |-> 10,
      leafCount |-> 1, branchLength |-> 10, leafOpacity |-> 500,
      seedRange |-> 500, seedEnergy |-> 400, germinationSpeed |-> 1,
      photoEfficiency |-> 500, maturityAge |-> 1, maxAge |-> 3 ]

Profiles == {Weed, Shrub, Starver}

----------------------------------------------------------------------------
(* Plant.ts *)

\* leafWeight(traits), milli
LeafWeight(tr) ==
    LET opacityFactor == 800 + ((tr.leafOpacity * 200) \div 1000)
        efficiencyFactor == 500 + ((tr.photoEfficiency * 300) \div 1000)
        sized == (Pow25(tr.leafSize) * opacityFactor) \div 1000
    IN  (sized * efficiencyFactor) \div 1000

\* the constructor with the id taken from the anchor cell instead of the
\* counter: `this.id = y * width + x`
NewPlantIdFromCell(id, x, y, tr, startEnergy, generation) ==
    [ id |-> y * GridWidth + x, x |-> x, y |-> y, traits |-> tr,
      generation |-> generation,
      stage |-> Seed, age |-> 0, currentHeight |-> 0, currentLeafCount |-> 0,
      energy |-> startEnergy, biomass |-> 0,
      germinationTimer |-> tr.germinationSpeed, deathCause |-> NoCause ]

\* new Plant(x, y, genes, startEnergy, generation) with id already drawn
NewPlant(id, x, y, tr, startEnergy, generation) ==
    [ id |-> id, x |-> x, y |-> y, traits |-> tr, generation |-> generation,
      stage |-> Seed, age |-> 0, currentHeight |-> 0, currentLeafCount |-> 0,
      energy |-> startEnergy, biomass |-> 0,
      germinationTimer |-> tr.germinationSpeed, deathCause |-> NoCause ]

IsAlive(p) == p.stage # Dead
IsMature(p) == p.stage = Mature
CanGrow(p) == p.stage = Growing \/ p.stage = Seedling

\* Plant.die(cause) with `this.deathCause = cause` left out
DieKeepsCause(p, cause) == [p EXCEPT !.stage = Dead]

\* Plant.die(cause)
Die(p, cause) == [p EXCEPT !.stage = Dead, !.deathCause = cause]

\* Plant.computeBiomass(), micro
ComputeBiomass(p) ==
    LET g23 == Pow23(p.traits.trunkGirth) \div TRUNK_MASS_DIV
        trunkMass == (g23 * Pow15(p.currentHeight)) \div 1000
        leafMass == p.currentLeafCount * LeafWeight(p.traits)
        branchMass == p.currentLeafCount
                      * (((Pow23(p.traits.trunkGirth) \div BRANCH_MASS_DIV)
                          * Pow15(p.traits.branchLength)) \div 1000)
    IN  trunkMass + leafMass + branchMass

\* the height transaction with `if (this.energy > growthCost)` left out
GrowHeightUnchecked(p) ==
    LET heightGap == p.traits.maxHeight - p.currentHeight
        growth == Min(p.traits.growthRate, heightGap)
        growthCost == growth * p.traits.trunkGirth * GROWTH_COST_RATE
    IN  IF heightGap > 0
        THEN [p EXCEPT !.currentHeight = @ + growth, !.energy = @ - growthCost]
        ELSE p

\* the height transaction with `this.currentHeight = growth` in place of `+=`
GrowHeightAssigned(p) ==
    LET heightGap == p.traits.maxHeight - p.currentHeight
        growth == Min(p.traits.growthRate, heightGap)
        growthCost == growth * p.traits.trunkGirth * GROWTH_COST_RATE
    IN  IF heightGap > 0 /\ p.energy > growthCost
        THEN [p EXCEPT !.currentHeight = growth, !.energy = @ - growthCost]
        ELSE p

\* Plant.grow(): the height transaction
GrowHeight(p) ==
    LET heightGap == p.traits.maxHeight - p.currentHeight
        growth == Min(p.traits.growthRate, heightGap)
        growthCost == growth * p.traits.trunkGirth * GROWTH_COST_RATE
    IN  IF heightGap > 0 /\ p.energy > growthCost
        THEN [p EXCEPT !.currentHeight = @ + growth, !.energy = @ - growthCost]
        ELSE p

\* Plant.grow(): the leaf transaction
GrowLeaf(p) ==
    LET leafInterval == Max(1, p.traits.maturityAge \div p.traits.leafCount)
        leafCost == LeafWeight(p.traits) * LEAF_GROWTH_COST_RATE
    IN  IF /\ p.currentLeafCount < p.traits.leafCount
           /\ p.age % leafInterval = 0
           /\ p.energy > leafCost
        THEN [p EXCEPT !.currentLeafCount = @ + 1, !.energy = @ - leafCost]
        ELSE p

Grow(p) == GrowLeaf(GrowHeight(p))

\* the stability test with `stabilityRatio <= 1`
TopHeavyOrEven(p) == p.traits.trunkGirth * TOPPLE_STABILITY_DIV <= p.currentHeight

\* tick(): stabilityRatio < 1, i.e. trunkGirth < currentHeight * 0.1
TopHeavy(p) == p.traits.trunkGirth * TOPPLE_STABILITY_DIV < p.currentHeight

\* the maturity check with a Mature organism below its maxHeight set back to
\* Growing
AdvanceStageReopens(p) ==
    IF p.stage = Mature /\ p.currentHeight < p.traits.maxHeight
    THEN [p EXCEPT !.stage = Growing]
    ELSE IF p.stage = Seedling \/ p.stage = Growing
    THEN IF \/ 10 * p.currentHeight >= p.traits.maxHeight * MATURITY_HEIGHT_TENTHS
            \/ p.age >= p.traits.maturityAge
         THEN [p EXCEPT !.stage = Mature]
         ELSE IF p.stage = Seedling /\ p.currentHeight > 10
              THEN [p EXCEPT !.stage = Growing]
              ELSE p
    ELSE p

\* the maturity check with `&&` in place of `||`
AdvanceStageBothNeeded(p) ==
    IF p.stage = Seedling \/ p.stage = Growing
    THEN IF /\ 10 * p.currentHeight >= p.traits.maxHeight * MATURITY_HEIGHT_TENTHS
            /\ p.age >= p.traits.maturityAge
         THEN [p EXCEPT !.stage = Mature]
         ELSE IF p.stage = Seedling /\ p.currentHeight > 10
              THEN [p EXCEPT !.stage = Growing]
              ELSE p
    ELSE p

\* tick(): the maturity check
AdvanceStage(p) ==
    IF p.stage = Seedling \/ p.stage = Growing
    THEN IF \/ 10 * p.currentHeight >= p.traits.maxHeight * MATURITY_HEIGHT_TENTHS
            \/ p.age >= p.traits.maturityAge
         THEN [p EXCEPT !.stage = Mature]
         ELSE IF p.stage = Seedling /\ p.currentHeight > 10
              THEN [p EXCEPT !.stage = Growing]
              ELSE p
    ELSE p

\* tick(): maintenanceMultiplier, milli
MaintenanceMultiplier(p) ==
    IF IsMature(p)
    THEN LET heightRealized == (1000 * p.currentHeight) \div p.traits.maxHeight
             leafRealized == (1000 * p.currentLeafCount) \div p.traits.leafCount
             avgRealized == (heightRealized + leafRealized) \div 2
         IN  1000 + ((1000 - avgRealized) * UNREALIZED_PENALTY) \div 1000
    ELSE 1000

\* Maintain with `if (this.energy <= 0) this.die('energy')` left out
MaintainNoDeath(p) ==
    LET b == ComputeBiomass(p)
        q == [p EXCEPT !.biomass = b]
        cost == (((b * MAINTENANCE_RATE) \div 1000) * MaintenanceMultiplier(q)) \div 1000
    IN  [q EXCEPT !.energy = @ - cost]

\* tick(): biomass, maintenance and the energy check
Maintain(p) ==
    LET b == ComputeBiomass(p)
        q == [p EXCEPT !.biomass = b]
        cost == (((b * MAINTENANCE_RATE) \div 1000) * MaintenanceMultiplier(q)) \div 1000
        r == [q EXCEPT !.energy = @ - cost]
    IN  IF r.energy <= 0 THEN Die(r, "energy") ELSE r

\* the Seed branch with the countdown tested before the energy
GerminateSproutsFirst(p) ==
    LET germinationBurn == GERMINATION_BURN \div Max(1, p.traits.germinationSpeed)
        q == [p EXCEPT !.energy = @ - germinationBurn, !.germinationTimer = @ - 1]
    IN  IF q.germinationTimer <= 0 THEN [q EXCEPT !.stage = Seedling]
        ELSE IF q.energy <= 0 THEN Die(q, "germination")
        ELSE q

\* tick(): the Seed branch
Germinate(p) ==
    LET germinationBurn == GERMINATION_BURN \div Max(1, p.traits.germinationSpeed)
        q == [p EXCEPT !.energy = @ - germinationBurn, !.germinationTimer = @ - 1]
    IN  IF q.energy <= 0 THEN Die(q, "germination")
        ELSE IF q.germinationTimer <= 0 THEN [q EXCEPT !.stage = Seedling]
        ELSE q

\* Plant.tick() with `if (!this.isAlive) return` left out
TickAgesDead(p, draw) ==
    LET a == [p EXCEPT !.age = @ + 1]
    IN  IF a.age >= a.traits.maxAge THEN Die(a, "age")
        ELSE IF a.stage = Seed THEN Germinate(a)
        ELSE IF TopHeavy(a) /\ draw THEN Die(a, "topple")
        ELSE Maintain(AdvanceStage(IF CanGrow(a) THEN Grow(a) ELSE a))

\* Plant.tick() with `this.age > this.traits.maxAge` for `>=`
TickStrictAge(p, draw) ==
    IF ~IsAlive(p) THEN p
    ELSE LET a == [p EXCEPT !.age = @ + 1]
         IN  IF a.age > a.traits.maxAge THEN Die(a, "age")
             ELSE IF a.stage = Seed THEN Germinate(a)
             ELSE IF TopHeavy(a) /\ draw THEN Die(a, "topple")
             ELSE Maintain(AdvanceStage(IF CanGrow(a) THEN Grow(a) ELSE a))

\* Plant.tick() without the age test
TickNoAgeDeath(p, draw) ==
    IF ~IsAlive(p) THEN p
    ELSE LET a == [p EXCEPT !.age = @ + 1]
         IN  IF a.stage = Seed THEN Germinate(a)
             ELSE IF TopHeavy(a) /\ draw THEN Die(a, "topple")
             ELSE Maintain(AdvanceStage(IF CanGrow(a) THEN Grow(a) ELSE a))

\* Plant.tick(); draw is the outcome of `Math.random() < toppleChance`
Tick(p, draw) ==
    IF ~IsAlive(p) THEN p
    ELSE LET a == [p EXCEPT !.age = @ + 1]
         IN  IF a.age >= a.traits.maxAge THEN Die(a, "age")
             ELSE IF a.stage = Seed THEN Germinate(a)
             ELSE IF TopHeavy(a) /\ draw THEN Die(a, "topple")
             ELSE Maintain(AdvanceStage(IF CanGrow(a) THEN Grow(a) ELSE a))

\* the outcomes `Math.random() < toppleChance` can have for p
ToppleDraws(p) ==
    IF IsAlive(p) /\ p.age + 1 < p.traits.maxAge /\ p.stage # Seed
       /\ TopHeavy(p) /\ TOPPLE_BASE_CHANCE > 0
    THEN {TRUE, FALSE} ELSE {FALSE}

\* Plant.seedBudget with the buffer (biomass * SEED_BUDGET_BUFFER) left out
SeedBudgetNoBuffer(p) ==
    IF ~IsMature(p) THEN 0
    ELSE Max(0, p.energy)

\* Plant.seedBudget, micro
SeedBudget(p) ==
    IF ~IsMature(p) THEN 0
    ELSE Max(0, p.energy - (p.biomass \div SEED_BUDGET_DIV))

----------------------------------------------------------------------------
(* Grid.ts *)

Cells == 0 .. (GridWidth * GridHeight - 1)

Index(x, y) == y * GridWidth + x

InBounds(x, y) == x >= 0 /\ x < GridWidth /\ y >= 0 /\ y < GridHeight

\* new Grid(width, height)
EmptyOccupied == [i \in Cells |-> Vacant]
ClearShadow == [i \in Cells |-> 0]

\* isOccupied() without its inBounds test: the array is read at index(x, y),
\* which for a coordinate outside the grid is a cell of another row or no cell
\* at all (undefined !== -1)
IsOccupiedRowWrap(occ, x, y) ==
    IF Index(x, y) \in Cells THEN occ[Index(x, y)] # Vacant ELSE TRUE

IsOccupied(occ, x, y) ==
    IF ~InBounds(x, y) THEN TRUE ELSE occ[Index(x, y)] # Vacant

Occupy(occ, x, y, plantId) ==
    IF InBounds(x, y) THEN [occ EXCEPT ![Index(x, y)] = plantId] ELSE occ

Vacate(occ, x, y) ==
    IF InBounds(x, y) THEN [occ EXCEPT ![Index(x, y)] = Vacant] ELSE occ

\* the footprint with the circle test `<` in place of `<=`
FootprintStrict(cx, cy, radius) ==
    LET r == CeilDiv(radius, 10)
        rSq == radius * radius
        x0 == Max(0, FloorDiv(cx - 10 * r, 10))
        y0 == Max(0, FloorDiv(cy - 10 * r, 10))
        x1 == Min(GridWidth - 1, CeilDiv(cx + 10 * r, 10))
        y1 == Min(GridHeight - 1, CeilDiv(cy + 10 * r, 10))
    IN  { c \in (x0 .. x1) \X (y0 .. y1) :
            LET dx == 10 * c[1] - cx
                dy == 10 * c[2] - cy
            IN  dx * dx + dy * dy < rSq }

\* The cells stampLeafShadow and getLitArea visit and accept: the bounding box
\* x0..x1, y0..y1 and the circle test.  cx, cy and radius are in deci.
Footprint(cx, cy, radius) ==
    LET r == CeilDiv(radius, 10)
        rSq == radius * radius
        x0 == Max(0, FloorDiv(cx - 10 * r, 10))
        y0 == Max(0, FloorDiv(cy - 10 * r, 10))
        x1 == Min(GridWidth - 1, CeilDiv(cx + 10 * r, 10))
        y1 == Min(GridHeight - 1, CeilDiv(cy + 10 * r, 10))
    IN  { c \in (x0 .. x1) \X (y0 .. y1) :
            LET dx == 10 * c[1] - cx
                dy == 10 * c[2] - cy
            IN  dx * dx + dy * dy <= rSq }

\* stampLeafShadow with `=` in place of `+=`
StampLeafShadowOverwrites(sh, cx, cy, radius, opacity) ==
    LET fp == { Index(c[1], c[2]) : c \in Footprint(cx, cy, radius) }
    IN  [i \in Cells |-> IF i \in fp THEN opacity ELSE sh[i]]

StampLeafShadow(sh, cx, cy, radius, opacity) ==
    LET fp == { Index(c[1], c[2]) : c \in Footprint(cx, cy, radius) }
    IN  [i \in Cells |-> IF i \in fp THEN sh[i] + opacity ELSE sh[i]]

\* milli
GetLight(sh, x, y) ==
    IF ~InBounds(x, y) THEN 0 ELSE Max(0, 1000 - sh[Index(x, y)])

RECURSIVE SumLight(_, _, _)
SumLight(sh, cs, opacity) ==
    IF cs = {} THEN 0
    ELSE LET c == CHOOSE d \in cs : TRUE
         IN  GetLight(sh, c[1], c[2]) * opacity + SumLight(sh, cs \ {c}, opacity)

\* lit area in cells, micro (light in milli times opacity in milli)
GetLitArea(sh, cx, cy, radius, opacity) ==
    SumLight(sh, Footprint(cx, cy, radius), opacity)

----------------------------------------------------------------------------
(* Simulation.ts: the light pass *)

\* Math.cos and Math.sin of an angle given in eighths of a turn, milli
Cos8(a) == <<1000, 707, 0, -707, -1000, -707, 0, 707>>[(a % 8) + 1]
Sin8(a) == Cos8(a + 6)

\* (plant.id * 2654435761 & 0xFFFFFF) / 0xFFFFFF of a turn, in eighths;
\* 2654435761 mod 2^24 = 3635633
AngleOffset(id) == (((id * 3635633) % 16777216) * 8) \div 16777215

\* getLeafPositions(plant): x, y in deci, z in deci * milli
LeafPosition(p, i) ==
    LET n == p.currentLeafCount
        angle == AngleOffset(p.id) + (8 * i) \div Max(1, n)
        t == IF n = 1 THEN 1000 ELSE (1000 * i) \div (n - 1)
        heightFraction == 600 + (400 * t) \div 1000
        taper == 1000 - (700 * t) \div 1000
        radius == (p.traits.branchLength * taper) \div 1000
    IN  [ x |-> 10 * p.x + (Cos8(angle) * radius) \div 1000,
          y |-> 10 * p.y + (Sin8(angle) * radius) \div 1000,
          z |-> p.currentHeight * heightFraction ]

GetLeafPositions(p) == [i \in 1 .. p.currentLeafCount |-> LeafPosition(p, i - 1)]

\* the gathering loop without `if (!plant.isAlive || plant.stage === Seed) continue`
PlantLeavesOfAny(ps, k) ==
    LET p == ps[k]
    IN  [i \in 1 .. p.currentLeafCount |->
           [ x |-> LeafPosition(p, i - 1).x, y |-> LeafPosition(p, i - 1).y,
             z |-> LeafPosition(p, i - 1).z,
             leafSize |-> p.traits.leafSize, leafOpacity |-> p.traits.leafOpacity,
             photoEfficiency |-> p.traits.photoEfficiency, plantIndex |-> k ]]

\* computeLightAndEnergy(): the leaves gathered from plant number k
PlantLeaves(ps, k) ==
    LET p == ps[k]
    IN  IF ~IsAlive(p) \/ p.stage = Seed \/ p.currentLeafCount = 0 THEN <<>>
        ELSE [i \in 1 .. p.currentLeafCount |->
                [ x |-> LeafPosition(p, i - 1).x, y |-> LeafPosition(p, i - 1).y,
                  z |-> LeafPosition(p, i - 1).z,
                  leafSize |-> p.traits.leafSize, leafOpacity |-> p.traits.leafOpacity,
                  photoEfficiency |-> p.traits.photoEfficiency, plantIndex |-> k ]]

RECURSIVE GatherLeaves(_, _)
GatherLeaves(ps, k) ==
    IF k > Len(ps) THEN <<>> ELSE PlantLeaves(ps, k) \o GatherLeaves(ps, k + 1)

\* the sort with the comparator (a, b) => a.z - b.z: lowest first
RECURSIVE InsertLeafLowestFirst(_, _)
InsertLeafLowestFirst(sorted, leaf) ==
    IF sorted = <<>> THEN <<leaf>>
    ELSE IF Head(sorted).z <= leaf.z
         THEN <<Head(sorted)>> \o InsertLeafLowestFirst(Tail(sorted), leaf)
         ELSE <<leaf>> \o sorted

\* allLeaves.sort((a, b) => b.z - a.z): highest first, equal heights keep their order
RECURSIVE InsertLeaf(_, _)
InsertLeaf(sorted, leaf) ==
    IF sorted = <<>> THEN <<leaf>>
    ELSE IF Head(sorted).z >= leaf.z
         THEN <<Head(sorted)>> \o InsertLeaf(Tail(sorted), leaf)
         ELSE <<leaf>> \o sorted

RECURSIVE SortLeaves(_)
SortLeaves(ls) ==
    IF ls = <<>> THEN <<>>
    ELSE InsertLeaf(SortLeaves(SubSeq(ls, 1, Len(ls) - 1)), ls[Len(ls)])

\* the single pass: read light, then stamp shadow
RECURSIVE SweepLeaves(_, _, _)
SweepLeaves(ls, sh, energyByPlant) ==
    IF ls = <<>> THEN [shadow |-> sh, energyByPlant |-> energyByPlant]
    ELSE LET leaf == Head(ls)
             leafEnergy == GetLitArea(sh, leaf.x, leaf.y, leaf.leafSize, leaf.leafOpacity)
             effectiveEfficiency == OneMinusExp(leaf.photoEfficiency)
             gain == (leafEnergy \div 1000) * effectiveEfficiency
         IN  SweepLeaves(Tail(ls),
                 StampLeafShadow(sh, leaf.x, leaf.y, leaf.leafSize, leaf.leafOpacity),
                 [energyByPlant EXCEPT ![leaf.plantIndex] = @ + gain])

\* computeLightAndEnergy() when the module-level ENERGY_SCALE is 1 / scaleDiv:
\* the shadow map and the plants after the pass
LightPassWith(ps, scaleDiv) ==
    LET swept == SweepLeaves(SortLeaves(GatherLeaves(ps, 1)), ClearShadow,
                             [k \in 1 .. Len(ps) |-> 0])
    IN  [ shadow |-> swept.shadow,
          plants |-> [k \in 1 .. Len(ps) |->
                        IF swept.energyByPlant[k] > 0
                        THEN [ps[k] EXCEPT !.energy =
                                 @ + swept.energyByPlant[k] \div scaleDiv]
                        ELSE ps[k]] ]

\* computeLightAndEnergy() with ENERGY_SCALE as the module initialises it
LightPass(ps) == LightPassWith(ps, ENERGY_SCALE_DIV)

----------------------------------------------------------------------------
(* Simulation.ts: construction *)

\* addPlant(plant): push, occupy, then this.onPlantAdded?.(plant)
AddPlant(st, plant) ==
    [st EXCEPT !.plants = Append(@, plant),
               !.occupied = Occupy(@, plant.x, plant.y, plant.id),
               !.addedCalls = IF onPlantAdded THEN Append(@, plant.id) ELSE @]

\* removePlant(plant) without this.grid.vacate(plant.x, plant.y)
RemovePlantKeepsMark(acc, plant) ==
    [acc EXCEPT !.removedCalls =
                    IF onPlantRemoved
                    THEN Append(@, [id |-> plant.id,
                                    cell |-> acc.occupied[Index(plant.x, plant.y)]])
                    ELSE @]

\* removePlant(plant): vacate, then this.onPlantRemoved?.(plant); a call is
\* recorded with what the plant's cell holds when the handler runs
RemovePlant(acc, plant) ==
    LET occ == Vacate(acc.occupied, plant.x, plant.y)
    IN  [acc EXCEPT !.occupied = occ,
                    !.removedCalls =
                        IF onPlantRemoved
                        THEN Append(@, [id |-> plant.id,
                                        cell |-> occ[Index(plant.x, plant.y)]])
                        ELSE @]

\* the iteration without `plant.stage = GrowthStage.Seedling`: the founder keeps
\* the stage the constructor gave it
SpawnOneAsSeed(st, x, y, tr) ==
    IF IsOccupied(st.occupied, x, y) THEN st
    ELSE LET plant == [NewPlant(st.nextPlantId, x, y, tr, tr.seedEnergy * 2, 0)
                         EXCEPT !.currentHeight = 10]
         IN  AddPlant([st EXCEPT !.nextPlantId = @ + 1], plant)

\* spawnInitialPlants(): one iteration, for the drawn cell (x, y) and genome tr
SpawnOne(st, x, y, tr) ==
    IF IsOccupied(st.occupied, x, y) THEN st
    ELSE LET plant == [NewPlant(st.nextPlantId, x, y, tr, tr.seedEnergy * 2, 0)
                         EXCEPT !.stage = Seedling, !.currentHeight = 10]
         IN  AddPlant([st EXCEPT !.nextPlantId = @ + 1], plant)

\* spawnInitialPlants(): every outcome of k more iterations
RECURSIVE SpawnInitialPlants(_, _)
SpawnInitialPlants(k, st) ==
    IF k = 0 THEN {st}
    ELSE UNION { SpawnInitialPlants(k - 1, SpawnOne(st, x, y, tr)) :
                    <<x, y, tr>> \in (0 .. GridWidth - 1) \X (0 .. GridHeight - 1) \X Profiles }

\* the configuration the model runs: { ...DEFAULT_CONFIG, ...config } with the
\* bounds of the model as the caller's values
ModelConfig ==
    [ gridWidth |-> GridWidth, gridHeight |-> GridHeight,
      initialPlants |-> InitialPlants, maxPlants |-> MaxPlants ]

\* new Simulation(config): the field initialisers, then the constructor body.
\* The event fields have no initialiser and the constructor does not assign
\* them, so no handler is set while spawnInitialPlants() runs.
Init ==
    /\ onPlantAdded = FALSE
    /\ onPlantRemoved = FALSE
    /\ \E st \in SpawnInitialPlants(InitialPlants,
                    [plants |-> <<>>, occupied |-> EmptyOccupied, nextPlantId |-> 0,
                     addedCalls |-> <<>>]) :
          /\ plants = st.plants
          /\ occupied = st.occupied
          /\ nextPlantId = st.nextPlantId
          /\ addedCalls = st.addedCalls
    /\ seeds = <<>>
    /\ shadow = ClearShadow
    /\ tick = 0
    /\ deathCounts = [energy |-> 0, age |-> 0, topple |-> 0, germination |-> 0]
    /\ pc = "idle"
    /\ pi = 1
    /\ rk = 0
    /\ newSeeds = <<>>
    /\ config = ModelConfig
    /\ calls = 0
    /\ removedCalls = <<>>
    /\ lastCall = NoCall
    /\ energyScaleDiv = ENERGY_SCALE_DIV
    /\ twin = <<>>

----------------------------------------------------------------------------
(* Simulation.ts: step() *)

\* step(): this.tick++
StepBegin ==
    /\ pc = "idle"
    /\ tick < MaxTick
    /\ tick' = tick + 1
    /\ pc' = "light"
    /\ UNCHANGED <<lastCall, config, tuning, handlers, addedCalls, removedCalls, calls, plants, seeds, occupied, shadow, deathCounts, nextPlantId,
                   pi, rk, newSeeds>>

\* step(): this.computeLightAndEnergy()
ComputeLightAndEnergy ==
    /\ pc = "light"
    /\ LET lit == LightPass(plants)
       IN  /\ shadow' = lit.shadow
           /\ plants' = lit.plants
    /\ pc' = "tick"
    /\ pi' = 1
    /\ UNCHANGED <<lastCall, config, tuning, handlers, addedCalls, removedCalls, calls, seeds, occupied, tick, deathCounts, nextPlantId, rk, newSeeds>>

\* step(): one iteration of `for (const plant of this.plants) plant.tick()`
TickPlant ==
    /\ pc = "tick"
    /\ pi <= Len(plants)
    /\ \E draw \in ToppleDraws(plants[pi]) :
          plants' = [plants EXCEPT ![pi] = Tick(@, draw)]
    /\ pi' = pi + 1
    /\ UNCHANGED <<lastCall, config, tuning, handlers, addedCalls, removedCalls, calls, seeds, occupied, shadow, tick, deathCounts, nextPlantId,
                   pc, rk, newSeeds>>

\* step(): the tick loop ends, reproduce() begins with an empty newSeeds
TickDone ==
    /\ pc = "tick"
    /\ pi > Len(plants)
    /\ pc' = "reproduce"
    /\ pi' = 1
    /\ rk' = 0
    /\ newSeeds' = <<>>
    /\ UNCHANGED <<lastCall, config, tuning, handlers, addedCalls, removedCalls, calls, plants, seeds, occupied, shadow, tick, deathCounts, nextPlantId>>

\* reproduce() without the interval: every age is a reproduction age
ReproIntervalEveryTick(p) == 1

\* reproduce(): reproInterval
ReproInterval(p) == Max(1, p.traits.maxAge \div REPRO_INTERVAL_DIV)

\* numSeeds with Math.ceil for Math.floor
NumSeedsRoundedUp(p) ==
    IF ~IsMature(p) \/ p.age % ReproInterval(p) # 0 THEN 0
    ELSE CeilDiv(SeedBudget(p), p.traits.seedEnergy)

\* reproduce(): numSeeds of a plant, 0 where the loop body is skipped
NumSeeds(p) ==
    IF ~IsMature(p) \/ p.age % ReproInterval(p) # 0 THEN 0
    ELSE SeedBudget(p) \div p.traits.seedEnergy

\* reproduce(): the head of the loop body for plant number pi
ReproducePlant ==
    /\ pc = "reproduce"
    /\ rk = 0
    /\ pi <= Len(plants)
    /\ LET numSeeds == NumSeeds(plants[pi])
       IN  IF numSeeds <= 0
           THEN pi' = pi + 1 /\ rk' = 0
           ELSE pi' = pi /\ rk' = numSeeds
    /\ UNCHANGED <<lastCall, config, tuning, handlers, addedCalls, removedCalls, calls, plants, seeds, occupied, shadow, tick, deathCounts, nextPlantId,
                   pc, newSeeds>>

\* reproduce(): effectiveRange, deci
EffectiveRange(p) ==
    (((p.currentHeight * SEED_DISPERSAL_SCALE) \div 1000) * p.traits.seedRange) \div 1000

\* reproduce(): the offsets (sx - plant.x, sy - plant.y) that
\* Math.round(plant.x + Math.cos(angle) * dist) can give for dist in [0, effectiveRange)
SeedOffsets(p) ==
    LET range == EffectiveRange(p)
        reach == (range + 5) \div 10 + 1
    IN  { d \in (-reach .. reach) \X (-reach .. reach) :
            LET nx == Max(10 * Abs(d[1]) - 5, 0)
                ny == Max(10 * Abs(d[2]) - 5, 0)
            IN  (d[1] = 0 /\ d[2] = 0) \/ nx * nx + ny * ny < range * range }

\* the seed pushed with `generation: plant.generation`
MakeSeedSameGeneration(p, sx, sy, tr) ==
    [ x |-> sx, y |-> sy, traits |-> tr, energy |-> p.traits.seedEnergy,
      generation |-> p.generation, germinationTimer |-> tr.germinationSpeed,
      age |-> 0 ]

\* reproduce(): the seed pushed for plant p at (sx, sy) with child traits tr
MakeSeed(p, sx, sy, tr) ==
    [ x |-> sx, y |-> sy, traits |-> tr, energy |-> p.traits.seedEnergy,
      generation |-> p.generation + 1, germinationTimer |-> tr.germinationSpeed,
      age |-> 0 ]

\* reproduce(): whether the drawn cell is skipped
SeedCellRejected(occ, sx, sy) == ~InBounds(sx, sy) \/ IsOccupied(occ, sx, sy)

\* reproduce(): one iteration of `for (let i = 0; i < numSeeds; i++)`
SeedAttempt ==
    /\ pc = "reproduce"
    /\ rk > 0
    /\ LET plant == plants[pi]
       IN  \E d \in SeedOffsets(plant) :
             LET sx == plant.x + d[1]
                 sy == plant.y + d[2]
             IN  IF SeedCellRejected(occupied, sx, sy)
                 THEN UNCHANGED <<lastCall, config, tuning, handlers, addedCalls, removedCalls, calls, plants, newSeeds>>
                 ELSE \E tr \in Profiles :
                        /\ newSeeds' = Append(newSeeds, MakeSeed(plant, sx, sy, tr))
                        /\ plants' = [plants EXCEPT ![pi].energy =
                                         @ - plant.traits.seedEnergy]
    /\ rk' = rk - 1
    /\ pi' = IF rk = 1 THEN pi + 1 ELSE pi
    /\ UNCHANGED <<lastCall, config, tuning, handlers, addedCalls, removedCalls, calls, seeds, occupied, shadow, tick, deathCounts, nextPlantId, pc>>

\* reproduce(): grid.occupy(seed.x, seed.y, -2) for every seed of newSeeds
RECURSIVE ReserveSeeds(_, _)
ReserveSeeds(occ, ss) ==
    IF ss = <<>> THEN occ
    ELSE ReserveSeeds(Occupy(occ, Head(ss).x, Head(ss).y, SeedMarker), Tail(ss))

\* reproduce(): after the loop over the plants
ReproduceEnd ==
    /\ pc = "reproduce"
    /\ rk = 0
    /\ pi > Len(plants)
    /\ seeds' = seeds \o newSeeds
    /\ occupied' = ReserveSeeds(occupied, newSeeds)
    /\ newSeeds' = <<>>
    /\ pc' = "germinate"
    /\ pi' = 1
    /\ UNCHANGED <<lastCall, config, tuning, handlers, addedCalls, removedCalls, calls, plants, shadow, tick, deathCounts, nextPlantId, rk>>

\* the first loop with the countdown test placed before the expiry test
RECURSIVE SortSeedsCountdownFirst(_, _)
SortSeedsCountdownFirst(ss, acc) ==
    IF ss = <<>> THEN acc
    ELSE LET seed == [Head(ss) EXCEPT !.age = @ + 1, !.germinationTimer = @ - 1]
         IN  SortSeedsCountdownFirst(Tail(ss),
                 IF seed.germinationTimer <= 0
                 THEN [acc EXCEPT !.germinated = Append(@, seed)]
                 ELSE IF seed.age > MAX_SEED_AGE
                      THEN [acc EXCEPT !.occupied = Vacate(@, seed.x, seed.y)]
                      ELSE [acc EXCEPT !.remaining = Append(@, seed)])

\* the first loop with `seed.germinationTimer < 0` for `<= 0`
RECURSIVE SortSeedsOnePhaseLate(_, _)
SortSeedsOnePhaseLate(ss, acc) ==
    IF ss = <<>> THEN acc
    ELSE LET seed == [Head(ss) EXCEPT !.age = @ + 1, !.germinationTimer = @ - 1]
         IN  SortSeedsOnePhaseLate(Tail(ss),
                 IF seed.age > MAX_SEED_AGE
                 THEN [acc EXCEPT !.occupied = Vacate(@, seed.x, seed.y)]
                 ELSE IF seed.germinationTimer < 0
                      THEN [acc EXCEPT !.germinated = Append(@, seed)]
                      ELSE [acc EXCEPT !.remaining = Append(@, seed)])

\* germinateSeeds(): the first loop, over this.seeds
RECURSIVE SortSeeds(_, _)
SortSeeds(ss, acc) ==
    IF ss = <<>> THEN acc
    ELSE LET seed == [Head(ss) EXCEPT !.age = @ + 1, !.germinationTimer = @ - 1]
         IN  SortSeeds(Tail(ss),
                 IF seed.age > MAX_SEED_AGE
                 THEN [acc EXCEPT !.occupied = Vacate(@, seed.x, seed.y)]
                 ELSE IF seed.germinationTimer <= 0
                      THEN [acc EXCEPT !.germinated = Append(@, seed)]
                      ELSE [acc EXCEPT !.remaining = Append(@, seed)])

LivingCount(ps) == Cardinality({k \in 1 .. Len(ps) : IsAlive(ps[k])})

\* the second loop with `if (livingCount + added >= this.config.maxPlants) continue` left out
RECURSIVE SpawnSeedsNoCap(_, _, _)
SpawnSeedsNoCap(gs, livingCount, st) ==
    IF gs = <<>> THEN st
    ELSE LET seed == Head(gs)
             occ == Vacate(st.occupied, seed.x, seed.y)
             plant == [NewPlant(st.nextPlantId, seed.x, seed.y, seed.traits,
                                seed.energy, seed.generation)
                         EXCEPT !.stage = Seedling, !.currentHeight = 5]
         IN  SpawnSeedsNoCap(Tail(gs), livingCount,
                 IF IsOccupied(occ, seed.x, seed.y)
                 THEN [st EXCEPT !.occupied = occ]
                 ELSE AddPlant([st EXCEPT !.occupied = occ,
                                          !.nextPlantId = @ + 1,
                                          !.added = @ + 1], plant))

\* germinateSeeds(): the second loop, over germinated
RECURSIVE SpawnSeeds(_, _, _)
SpawnSeeds(gs, livingCount, st) ==
    IF gs = <<>> THEN st
    ELSE LET seed == Head(gs)
             occ == Vacate(st.occupied, seed.x, seed.y)
             plant == [NewPlant(st.nextPlantId, seed.x, seed.y, seed.traits,
                                seed.energy, seed.generation)
                         EXCEPT !.stage = Seedling, !.currentHeight = 5]
         IN  SpawnSeeds(Tail(gs), livingCount,
                 IF livingCount + st.added >= MaxPlants \/ IsOccupied(occ, seed.x, seed.y)
                 THEN [st EXCEPT !.occupied = occ]
                 ELSE AddPlant([st EXCEPT !.occupied = occ,
                                          !.nextPlantId = @ + 1,
                                          !.added = @ + 1], plant))

\* germinateSeeds()
GerminateSeeds ==
    /\ pc = "germinate"
    /\ LET sorted == SortSeeds(seeds, [occupied |-> occupied, germinated |-> <<>>,
                                       remaining |-> <<>>])
           spawned == SpawnSeeds(sorted.germinated, LivingCount(plants),
                                 [plants |-> plants, occupied |-> sorted.occupied,
                                  nextPlantId |-> nextPlantId, added |-> 0,
                                  addedCalls |-> addedCalls])
       IN  /\ seeds' = sorted.remaining
           /\ plants' = spawned.plants
           /\ occupied' = spawned.occupied
           /\ nextPlantId' = spawned.nextPlantId
           /\ addedCalls' = spawned.addedCalls
    /\ pc' = "cleanup"
    /\ UNCHANGED <<lastCall, config, tuning, handlers, removedCalls, calls, shadow, tick, deathCounts, pi, rk, newSeeds>>

\* the loop of cleanup() pushing every plant, dead or alive, to `alive`
RECURSIVE SweepKeepsDead(_, _)
SweepKeepsDead(ps, acc) ==
    IF ps = <<>> THEN acc
    ELSE LET plant == Head(ps)
         IN  SweepKeepsDead(Tail(ps),
                 IF IsAlive(plant)
                 THEN [acc EXCEPT !.alive = Append(@, plant)]
                 ELSE RemovePlant(
                        [acc EXCEPT !.alive = Append(@, plant),
                                    !.deathCounts =
                                        IF plant.deathCause # NoCause
                                        THEN [@ EXCEPT ![plant.deathCause] = @ + 1]
                                        ELSE @],
                        plant))

\* the loop of cleanup() with `this.deathCounts[plant.deathCause]++` left out
RECURSIVE SweepUncounted(_, _)
SweepUncounted(ps, acc) ==
    IF ps = <<>> THEN acc
    ELSE LET plant == Head(ps)
         IN  SweepUncounted(Tail(ps),
                 IF IsAlive(plant)
                 THEN [acc EXCEPT !.alive = Append(@, plant)]
                 ELSE RemovePlant(acc, plant))

\* cleanup(): the loop over this.plants
RECURSIVE Sweep(_, _)
Sweep(ps, acc) ==
    IF ps = <<>> THEN acc
    ELSE LET plant == Head(ps)
         IN  Sweep(Tail(ps),
                 IF IsAlive(plant)
                 THEN [acc EXCEPT !.alive = Append(@, plant)]
                 ELSE RemovePlant(
                        [acc EXCEPT !.deathCounts =
                                        IF plant.deathCause # NoCause
                                        THEN [@ EXCEPT ![plant.deathCause] = @ + 1]
                                        ELSE @],
                        plant))

\* cleanup()
Cleanup ==
    /\ pc = "cleanup"
    /\ LET swept == Sweep(plants, [alive |-> <<>>, deathCounts |-> deathCounts,
                                   occupied |-> occupied,
                                   removedCalls |-> removedCalls])
       IN  /\ plants' = swept.alive
           /\ deathCounts' = swept.deathCounts
           /\ occupied' = swept.occupied
           /\ removedCalls' = swept.removedCalls
    /\ pc' = "idle"
    /\ UNCHANGED <<lastCall, config, tuning, handlers, addedCalls, calls, seeds, shadow, tick, nextPlantId, pi, rk, newSeeds>>

Next ==
    \/ StepBegin
    \/ ComputeLightAndEnergy
    \/ TickPlant
    \/ TickDone
    \/ ReproducePlant
    \/ SeedAttempt
    \/ ReproduceEnd
    \/ GerminateSeeds
    \/ Cleanup

Spec == Init /\ [][Next]_vars

----------------------------------------------------------------------------
(* A Plant used on its own: constructed, optionally set up as the          *)
(* Simulation sets up the plants it creates, lit by the light pass and     *)
(* ticked, also after it has died.                                         *)

\* the startEnergy arguments of the repository's `new Plant(...)` calls:
\* traits.seedEnergy * 2, seed.energy (a parent's seedEnergy) and 999
StartEnergies(tr) ==
    {tr.seedEnergy * 2, 999000000} \cup {parent.seedEnergy : parent \in Profiles}

\* traits whose germinationSpeed is not below maxAge: an organism that stays in
\* stage Seed until its age limit (decodeTraits gives germinationSpeed any
\* integer from 1 to 10000 and maxAge any integer from 1 to 10000)
SlowSprout == [Weed EXCEPT !.germinationSpeed = Weed.maxAge]

PlantInit ==
    /\ \E tr \in Profiles \cup {SlowSprout} : \E e \in StartEnergies(tr) :
          plants = <<NewPlant(0, 0, 0, tr, e, 0)>>
    /\ nextPlantId = 1
    /\ seeds = <<>>
    /\ occupied = EmptyOccupied
    /\ shadow = ClearShadow
    /\ tick = 0
    /\ deathCounts = [energy |-> 0, age |-> 0, topple |-> 0, germination |-> 0]
    /\ pc = "plant"
    /\ pi = 1
    /\ rk = 0
    /\ newSeeds = <<>>
    /\ config = ModelConfig
    /\ calls = 0
    /\ onPlantAdded = FALSE
    /\ onPlantRemoved = FALSE
    /\ addedCalls = <<>>
    /\ removedCalls = <<>>
    /\ lastCall = NoCall
    /\ energyScaleDiv = ENERGY_SCALE_DIV
    /\ twin = <<>>

\* plant.stage = GrowthStage.Seedling; plant.currentHeight = 1 (founders) or 0.5
\* (germinated seeds), written right after construction
PlantSetup ==
    /\ pc = "plant"
    /\ calls = 0
    /\ plants[1].stage = Seed
    /\ \E h \in {10, 5} :
          plants' = <<[plants[1] EXCEPT !.stage = Seedling, !.currentHeight = h]>>
    /\ UNCHANGED <<lastCall, config, tuning, handlers, addedCalls, removedCalls, seeds, occupied, shadow, tick, deathCounts, nextPlantId,
                   pc, pi, rk, newSeeds, calls>>

\* computeLightAndEnergy() over a population of this one plant, once before a tick
PlantLight ==
    /\ pc = "plant"
    /\ calls < MaxCalls
    /\ LET lit == LightPass(plants)
       IN  /\ shadow' = lit.shadow
           /\ plants' = lit.plants
    /\ pc' = "plant_lit"
    /\ UNCHANGED <<lastCall, config, tuning, handlers, addedCalls, removedCalls, seeds, occupied, tick, deathCounts, nextPlantId, pi, rk,
                   newSeeds, calls>>

\* plant.tick()
PlantTick ==
    /\ pc \in {"plant", "plant_lit"}
    /\ calls < MaxCalls
    /\ \E draw \in ToppleDraws(plants[1]) :
          plants' = <<Tick(plants[1], draw)>>
    /\ calls' = calls + 1
    /\ pc' = "plant"
    /\ UNCHANGED <<lastCall, config, tuning, handlers, addedCalls, removedCalls, seeds, occupied, shadow, tick, deathCounts, nextPlantId, pi, rk,
                   newSeeds>>

PlantNext == PlantSetup \/ PlantLight \/ PlantTick

PlantSpec == PlantInit /\ [][PlantNext]_vars

----------------------------------------------------------------------------
(* Construction under any configuration: `new Simulation(config)` for       *)
(* configurations with non-positive grid dimensions or maxPlants 0 as well  *)
(* as the model's own.                                                      *)

Configs ==
    { [ gridWidth |-> w, gridHeight |-> h, initialPlants |-> InitialPlants,
        maxPlants |-> m ] :
        <<w, h, m>> \in {-1, 0, GridWidth} \X {-1, 0, GridHeight} \X {0, MaxPlants} }

\* new Grid(width, height): `new Float32Array(width * height)` throws a
\* RangeError for a negative length and nothing else in the constructors throws
GridThrows(width, height) == width * height < 0

\* new Grid(width, height): the arrays, of length width * height
NewGrid(width, height) ==
    [ occupied |-> [i \in 0 .. (width * height - 1) |-> Vacant],
      shadow |-> [i \in 0 .. (width * height - 1) |-> 0] ]

\* before `new Simulation(config)`: the argument is chosen, nothing exists
ConfigInit ==
    /\ config \in Configs
    /\ pc = "new"
    /\ onPlantAdded = FALSE
    /\ onPlantRemoved = FALSE
    /\ plants = <<>>
    /\ seeds = <<>>
    /\ occupied = <<>>
    /\ shadow = <<>>
    /\ tick = 0
    /\ deathCounts = [energy |-> 0, age |-> 0, topple |-> 0, germination |-> 0]
    /\ nextPlantId = 0
    /\ pi = 1
    /\ rk = 0
    /\ newSeeds = <<>>
    /\ calls = 0
    /\ addedCalls = <<>>
    /\ removedCalls = <<>>
    /\ lastCall = NoCall
    /\ energyScaleDiv = ENERGY_SCALE_DIV
    /\ twin = <<>>

\* new Simulation(config).  With a width or height <= 0 inBounds() is false for
\* every cell, so isOccupied() is true for every draw of spawnInitialPlants()
\* and nothing is spawned; with the model's dimensions the grid is that of
\* EmptyOccupied and ClearShadow and the draws are those of SpawnInitialPlants.
\* config.maxPlants is not read.
Construct ==
    /\ pc = "new"
    /\ IF GridThrows(config.gridWidth, config.gridHeight)
       THEN /\ pc' = "error"
            /\ UNCHANGED <<plants, occupied, shadow, nextPlantId, addedCalls>>
       ELSE /\ pc' = "idle"
            /\ IF config.gridWidth <= 0 \/ config.gridHeight <= 0
               THEN /\ occupied' = NewGrid(config.gridWidth, config.gridHeight).occupied
                    /\ shadow' = NewGrid(config.gridWidth, config.gridHeight).shadow
                    /\ UNCHANGED <<plants, nextPlantId, addedCalls>>
               ELSE /\ shadow' = ClearShadow
                    /\ \E st \in SpawnInitialPlants(config.initialPlants,
                               [plants |-> <<>>, occupied |-> EmptyOccupied,
                                nextPlantId |-> 0, addedCalls |-> <<>>]) :
                          /\ plants' = st.plants
                          /\ occupied' = st.occupied
                          /\ nextPlantId' = st.nextPlantId
                          /\ addedCalls' = st.addedCalls
    /\ UNCHANGED <<lastCall, config, tuning, handlers, removedCalls, seeds, tick, deathCounts,
                   pi, rk, newSeeds, calls>>

ConfigSpec == ConfigInit /\ [][Construct]_vars

----------------------------------------------------------------------------
(* The application (main.ts): `new Simulation(...)`, then `new SceneManager(sim)`, *)
(* whose constructor sets the two event fields, then sim.step() from the          *)
(* animation loop.                                                                *)

\* SceneManager constructor: sim.onPlantAdded = ...; sim.onPlantRemoved = ...
WireEvents ==
    /\ pc = "idle"
    /\ tick = 0
    /\ ~onPlantAdded
    /\ onPlantAdded' = TRUE
    /\ onPlantRemoved' = TRUE
    /\ UNCHANGED <<plants, seeds, occupied, shadow, tick, deathCounts, nextPlantId,
                   pc, pi, rk, newSeeds, calls, addedCalls, removedCalls, config, tuning, lastCall>>

\* animate(): sim.step(), reached only after the SceneManager was constructed
SceneStep ==
    /\ onPlantAdded
    /\ StepBegin

SceneNext ==
    \/ WireEvents
    \/ SceneStep
    \/ ComputeLightAndEnergy
    \/ TickPlant
    \/ TickDone
    \/ ReproducePlant
    \/ SeedAttempt
    \/ ReproduceEnd
    \/ GerminateSeeds
    \/ Cleanup

SceneSpec == Init /\ [][SceneNext]_vars

----------------------------------------------------------------------------
(* A Simulation late in its run: MAX_SEED_AGE - 1 steps have been made, the   *)
(* founders have died of age and been removed, and seeds created in the first *)
(* step are still pending, on cells of their own that carry the seed marker.  *)

\* traits of a slow seed: germinationSpeed around MAX_SEED_AGE (decodeTraits
\* gives germinationSpeed any integer from 1 to 10000)
Sleepers == { [Weed EXCEPT !.germinationSpeed = MAX_SEED_AGE + d] : d \in 0 .. 2 }

\* traits of a long-lived plant with cheap seeds: maxAge 40 makes reproInterval
\* 2, and the plant could pay for a seed at age 1 already (decodeTraits gives
\* maxAge any integer from 1 to 10000)
Elder == [Weed EXCEPT !.germinationSpeed = MAX_SEED_AGE, !.maxAge = 40,
                      !.seedEnergy = 4500, !.photoEfficiency = 500]

\* traits of a plant whose maxHeight is 0.3 (traitValue gives maxHeight any
\* value from 0.0001 to 10000)
Dwarf == [Weed EXCEPT !.germinationSpeed = MAX_SEED_AGE, !.maxHeight = 3]

\* traits of a short-lived plant: it dies of age in its second tick
Mayfly == [Weed EXCEPT !.germinationSpeed = MAX_SEED_AGE, !.maxAge = 2]

\* the traits the pending seeds carry
OldTraits == Sleepers \cup {Elder, Dwarf, Mayfly}

\* a seed pushed by reproduce() in step 1, as germinateSeeds() has left it
\* after MAX_SEED_AGE - 1 steps
OldSeed(c, tr) ==
    [ x |-> c[1], y |-> c[2], traits |-> tr, energy |-> Weed.seedEnergy,
      generation |-> 1,
      germinationTimer |-> tr.germinationSpeed - (MAX_SEED_AGE - 1),
      age |-> MAX_SEED_AGE - 1 ]

LateInit ==
    /\ \E c1, c2 \in (0 .. GridWidth - 1) \X (0 .. GridHeight - 1) :
       \E t1, t2 \in OldTraits : \E n \in 1 .. 2 :
          /\ c1 # c2
          /\ seeds = SubSeq(<<OldSeed(c1, t1), OldSeed(c2, t2)>>, 1, n)
          /\ occupied = ReserveSeeds(EmptyOccupied, seeds)
    /\ plants = <<>>
    /\ nextPlantId = InitialPlants
    /\ deathCounts = [energy |-> 0, age |-> InitialPlants, topple |-> 0,
                      germination |-> 0]
    /\ shadow = ClearShadow
    /\ tick = MAX_SEED_AGE - 1
    /\ pc = "idle"
    /\ pi = 1
    /\ rk = 0
    /\ newSeeds = <<>>
    /\ config = ModelConfig
    /\ calls = 0
    /\ onPlantAdded = FALSE
    /\ onPlantRemoved = FALSE
    /\ addedCalls = <<>>
    /\ removedCalls = <<>>
    /\ lastCall = NoCall
    /\ energyScaleDiv = ENERGY_SCALE_DIV
    /\ twin = <<>>

\* step(): this.tick++, for LateSteps more steps
LateStepBegin ==
    /\ pc = "idle"
    /\ tick < MAX_SEED_AGE - 1 + LateSteps
    /\ tick' = tick + 1
    /\ pc' = "light"
    /\ UNCHANGED <<lastCall, config, tuning, handlers, addedCalls, removedCalls, calls, plants, seeds, occupied, shadow, deathCounts, nextPlantId,
                   pi, rk, newSeeds>>

LateNext ==
    \/ LateStepBegin
    \/ ComputeLightAndEnergy
    \/ TickPlant
    \/ TickDone
    \/ ReproducePlant
    \/ SeedAttempt
    \/ ReproduceEnd
    \/ GerminateSeeds
    \/ Cleanup

LateSpec == LateInit /\ [][LateNext]_vars

----------------------------------------------------------------------------
(* Properties *)

\* the plant of PlantSpec
Organism == plants[1]

\* a tick() call on the plant of PlantSpec
TickCall == calls' = calls + 1

\* C1: Dead is terminal. Once the organism's stage is Dead no operation, tick()
\* included, changes any of its fields, and deathCause changes only in the
\* transition that takes the stage from not Dead to Dead.
C1_DeadIsTerminal ==
    [][ /\ Organism.stage = Dead => Organism' = Organism
        /\ Organism'.deathCause # Organism.deathCause =>
              /\ Organism.stage # Dead
              /\ Organism'.stage = Dead
              /\ Organism.deathCause = NoCause ]_vars

\* C1 witness: the organism is Dead and tick() has been called on it since it
\* died (more calls than the age they added up to)
C1_Witness == Organism.stage = Dead /\ calls > Organism.age

\* C2: in every state, an organism's stage is Dead if and only if its
\* deathCause is one of energy, age, topple, germination (and is null otherwise).
C2_DeadIffCause ==
    \A k \in 1 .. Len(plants) :
        /\ plants[k].deathCause \in DeathCauses \cup {NoCause}
        /\ plants[k].stage = Dead <=> plants[k].deathCause \in DeathCauses

\* C2 witness: an organism that died while germinating
C2_Witness ==
    \E k \in 1 .. Len(plants) :
        plants[k].stage = Dead /\ plants[k].deathCause = "germination"

\* C3: between step() calls every living organism of the population has its
\* anchor cell marked in the occupancy map with its own id.
C3_AnchorCellsMarked ==
    pc = "idle" =>
        \A k \in 1 .. Len(plants) :
            IsAlive(plants[k]) =>
                occupied[Index(plants[k].x, plants[k].y)] = plants[k].id

\* C4: between step() calls no two living organisms of the population have the
\* same anchor cell.
C4_NoSharedAnchor ==
    pc = "idle" =>
        \A i, j \in 1 .. Len(plants) :
            (i # j /\ IsAlive(plants[i]) /\ IsAlive(plants[j])) =>
                <<plants[i].x, plants[i].y>> # <<plants[j].x, plants[j].y>>

\* the pending seeds: this.seeds and, inside reproduce(), newSeeds
PendingSeeds == seeds \o newSeeds

\* C5: at no time do two pending seeds share a cell, the seeds created earlier
\* in the same reproduction phase included.
C5_NoSharedSeedCell ==
    \A i, j \in 1 .. Len(PendingSeeds) :
        i # j => <<PendingSeeds[i].x, PendingSeeds[i].y>>
                    # <<PendingSeeds[j].x, PendingSeeds[j].y>>

\* C6: between step() calls the cell of every pending seed carries the
\* seed-reservation marker -2.
C6_SeedCellsReserved ==
    pc = "idle" =>
        \A i \in 1 .. Len(seeds) :
            occupied[Index(seeds[i].x, seeds[i].y)] = SeedMarker

\* C7: a germination phase that adds organisms leaves at most maxPlants living
\* organisms: every organism is added while living + added < maxPlants.
C7_GerminationRespectsCap ==
    [][ (pc = "germinate" /\ Len(plants') > Len(plants)) =>
            LivingCount(plants') <= MaxPlants ]_vars

\* C7 witness: germination has just added an organism (age 0) and the living
\* count stands at maxPlants
C7_Witness ==
    /\ pc = "cleanup"
    /\ LivingCount(plants) = MaxPlants
    /\ \E k \in 1 .. Len(plants) : plants[k].age = 0

\* the order of step(): tick++, light pass, ticks, reproduction, germination, cleanup
StepOrder ==
    { <<"idle", "light">>, <<"light", "tick">>, <<"tick", "reproduce">>,
      <<"reproduce", "germinate">>, <<"germinate", "cleanup">>, <<"cleanup", "idle">> }

\* C8: a step() raises the tick counter by exactly one, at its start, runs its
\* five phases in the order light, ticks, reproduction, germination, cleanup, and
\* when it has returned the population holds no Dead organism.
C8_StepRunsPhasesInOrder ==
    /\ [][ /\ pc' # pc => <<pc, pc'>> \in StepOrder
           /\ tick' = IF pc = "idle" /\ pc' = "light" THEN tick + 1 ELSE tick ]_vars
    /\ [](pc = "idle" => \A k \in 1 .. Len(plants) : IsAlive(plants[k]))

\* C8 witness: a step has returned after its cleanup removed a dead organism
C8_Witness ==
    /\ pc = "idle"
    /\ tick >= 1
    /\ deathCounts.energy + deathCounts.age + deathCounts.topple
          + deathCounts.germination > 0

\* C9: a tick() of a living organism adds one to its age, and when the new age
\* is >= maxAge the organism is Dead with cause "age" and nothing else of it has
\* changed; an organism that died of age has age = maxAge.
C9_AgeDeath ==
    /\ [][ (TickCall /\ IsAlive(Organism)) =>
             /\ Organism'.age = Organism.age + 1
             /\ Organism.age + 1 >= Organism.traits.maxAge =>
                   Organism' = [Organism EXCEPT !.age = @ + 1, !.stage = Dead,
                                                !.deathCause = "age"] ]_vars
    /\ [](Organism.deathCause = "age" => Organism.age = Organism.traits.maxAge)

\* C9 witness: an organism died of age while top-heavy (stability ratio < 1)
C9_Witness == Organism.deathCause = "age" /\ TopHeavy(Organism)

\* C10: whenever tick() returns with the organism not Dead its energy is > 0;
\* an energy <= 0 after the germination burn or after maintenance makes the
\* organism Dead in that tick, with cause germination or energy respectively.
C10_AliveHasEnergy ==
    [][ TickCall =>
          /\ IsAlive(Organism') => Organism'.energy > 0
          /\ (IsAlive(Organism) /\ Organism'.energy <= 0) =>
                /\ Organism'.stage = Dead
                /\ Organism'.deathCause =
                      IF Organism.stage = Seed THEN "germination" ELSE "energy" ]_vars

\* C10 witness: maintenance took the energy to <= 0 and the organism died of it
C10_Witness == Organism.deathCause = "energy" /\ Organism.energy <= 0

\* C11: a height or leaf transaction of grow() is applied only when the energy
\* before it is strictly greater than its cost, and then takes exactly the cost,
\* so the energy after it is > 0; with energy <= cost it changes nothing.  Stated
\* for the organism as tick() hands it to grow(): aged by one, stage Seedling or
\* Growing.
C11_GrowthWithinEnergy ==
    CanGrow(Organism) =>
        LET a == [Organism EXCEPT !.age = @ + 1]
            growthCost == Min(a.traits.growthRate, a.traits.maxHeight - a.currentHeight)
                             * a.traits.trunkGirth * GROWTH_COST_RATE
            leafCost == LeafWeight(a.traits) * LEAF_GROWTH_COST_RATE
            h == GrowHeight(a)
            l == GrowLeaf(h)
        IN  /\ a.energy <= growthCost => h = a
            /\ h # a => /\ a.energy > growthCost
                        /\ h.currentHeight > a.currentHeight
                        /\ h.energy = a.energy - growthCost
                        /\ h.energy > 0
            /\ h.energy <= leafCost => l = h
            /\ l # h => /\ h.energy > leafCost
                        /\ l.currentLeafCount = h.currentLeafCount + 1
                        /\ l.energy = h.energy - leafCost
                        /\ l.energy > 0

\* C11 witness: a growing organism that has grown before (its height is past
\* both starting heights) and whose energy no longer covers the next height
\* transaction, which is therefore refused
C11_Witness ==
    /\ CanGrow(Organism)
    /\ calls > 0
    /\ Organism.currentHeight > 10
    /\ Organism.currentHeight < Organism.traits.maxHeight
    /\ Organism.energy <= Min(Organism.traits.growthRate,
                              Organism.traits.maxHeight - Organism.currentHeight)
                             * Organism.traits.trunkGirth * GROWTH_COST_RATE

\* C12: in reproduce() the iterations a parent still has to run never exceed
\* floor(seedBudget / seedEnergy) for the budget it has left, so it creates at most
\* floor(seedBudget / seedEnergy) seeds (none when it is not Mature or its budget
\* is 0); every iteration creates at most one seed, and the parent's energy falls
\* by exactly seedEnergy per seed created: a skipped placement costs nothing and
\* no other organism's energy moves.
C12_SeedsWithinBudget ==
    /\ []((pc = "reproduce" /\ rk > 0) =>
            /\ IsMature(plants[pi])
            /\ rk <= SeedBudget(plants[pi]) \div plants[pi].traits.seedEnergy)
    /\ [][ (pc = "reproduce" /\ pc' = "reproduce") =>
             LET made == Len(newSeeds') - Len(newSeeds)
             IN  /\ made \in {0, 1}
                 /\ Len(plants') = Len(plants)
                 /\ \A k \in 1 .. Len(plants) :
                       plants'[k] =
                          IF k = pi
                          THEN [plants[k] EXCEPT !.energy =
                                   @ - made * plants[k].traits.seedEnergy]
                          ELSE plants[k] ]_vars

\* C12 witness: inside reproduce(), a seed has been created in this phase and
\* the current parent has had a placement skipped (it has fewer iterations left
\* than its remaining budget would pay for)
C12_Witness ==
    /\ pc = "reproduce"
    /\ rk > 0
    /\ newSeeds # <<>>
    /\ rk < SeedBudget(plants[pi]) \div plants[pi].traits.seedEnergy

\* C13: an organism that has just created a seed still has energy >= its buffer,
\* half of its biomass, and energy > 0; as reproduce() only lowers an energy when
\* it creates a seed, this holds of every seed producer when the phase ends.
C13_ReproductionKeepsBuffer ==
    [][ (pc = "reproduce" /\ Len(newSeeds') > Len(newSeeds)) =>
           /\ plants'[pi].energy >= plants'[pi].biomass \div SEED_BUDGET_DIV
           /\ plants'[pi].energy > 0 ]_vars

\* C13 witness: inside reproduce(), the first Mature organism of the population
\* has created a seed and what it has left above the buffer no longer pays
\* for two more
C13_Witness ==
    /\ pc = "reproduce"
    /\ rk > 0
    /\ newSeeds # <<>>
    /\ \A k \in 1 .. (pi - 1) : ~IsMature(plants[k])
    /\ plants[pi].energy - plants[pi].biomass \div SEED_BUDGET_DIV
          < 2 * plants[pi].traits.seedEnergy

\* the sum of the four death counters
DeathTotal ==
    deathCounts.energy + deathCounts.age + deathCounts.topple + deathCounts.germination

\* C15: cleanup() keeps exactly the living organisms, in order; it raises the
\* counter of each cause by the number of Dead organisms with that cause and
\* leaves the cell of every Dead organism vacant.  So at all times the four
\* counters add up to the organisms removed so far: those ever added to the
\* population (one id each) less those still in it.
C15_CleanupTalliesDeaths ==
    /\ [][ pc = "cleanup" =>
             /\ plants' = SelectSeq(plants, IsAlive)
             /\ \A c \in DeathCauses :
                   deathCounts'[c] = deathCounts[c]
                      + Cardinality({k \in 1 .. Len(plants) :
                                        ~IsAlive(plants[k]) /\ plants[k].deathCause = c})
             /\ \A k \in 1 .. Len(plants) :
                   ~IsAlive(plants[k]) =>
                       occupied'[Index(plants[k].x, plants[k].y)] = Vacant ]_vars
    /\ [](DeathTotal = nextPlantId - Len(plants))

\* C15 witness: cleanup has removed organisms dead of two different causes and
\* has kept a living one
C15_Witness ==
    /\ pc = "idle"
    /\ Len(plants) > 0
    /\ Cardinality({c \in DeathCauses : deathCounts[c] > 0}) >= 2

\* C14: in a germination phase, a pending seed whose age - after the phase's
\* increment - exceeds MAX_SEED_AGE is not among the seeds pending afterwards,
\* its cell is vacant afterwards, and none of the organisms the phase adds stands
\* on its cell; this does not depend on its countdown, which may reach zero in
\* the same phase.
C14_ExpiredSeedDiscarded ==
    [][ pc = "germinate" =>
          /\ \A j \in 1 .. Len(seeds') : seeds'[j].age <= MAX_SEED_AGE
          /\ \A i \in 1 .. Len(seeds) :
                seeds[i].age + 1 > MAX_SEED_AGE =>
                   /\ occupied'[Index(seeds[i].x, seeds[i].y)] = Vacant
                   /\ \A k \in (Len(plants) + 1) .. Len(plants') :
                         <<plants'[k].x, plants'[k].y>> # <<seeds[i].x, seeds[i].y>> ]_vars

\* C14 witness: the germination phase of step MAX_SEED_AGE + 1 has run; the
\* seeds that were pending since step 1 are gone, every cell is vacant and no
\* organism was ever created from them (no id was issued)
C14_Witness ==
    /\ pc = "cleanup"
    /\ tick = MAX_SEED_AGE + 1
    /\ seeds = <<>>
    /\ plants = <<>>
    /\ occupied = EmptyOccupied
    /\ nextPlantId = InitialPlants

\* the number of calls of the onPlantAdded handler made for plant id
AddedCallsFor(id) ==
    Cardinality({i \in 1 .. Len(addedCalls) : addedCalls[i] = id})

\* C16: once a handler is set, the onPlantAdded handler has been called exactly
\* once for every organism that has entered the population (every id issued),
\* the organisms of the initial seeding as well as the germinated ones.
C16_AddedCallbackPerOrganism ==
    onPlantAdded =>
        \A id \in 0 .. (nextPlantId - 1) : AddedCallsFor(id) = 1

\* C17: the onPlantRemoved handler is called exactly once for each dead organism
\* removed (the calls carry distinct ids and are as many as the deaths tallied),
\* and when it is called the organism's cell has not been vacated yet.
C17_RemovedCallbackBeforeVacate ==
    /\ Len(removedCalls) = DeathTotal
    /\ \A i, j \in 1 .. Len(removedCalls) :
          i # j => removedCalls[i].id # removedCalls[j].id
    /\ \A i \in 1 .. Len(removedCalls) : removedCalls[i].cell # Vacant

\* a configuration with a grid width or height <= 0, or with maxPlants 0
Malformed(cfg) == cfg.gridWidth <= 0 \/ cfg.gridHeight <= 0 \/ cfg.maxPlants = 0

\* C18: `new Simulation(config)` with a malformed configuration ends in an error
\* and produces no simulation state: no grid and no population.
C18_MalformedConfigRejected ==
    (pc # "new" /\ Malformed(config)) =>
        /\ pc = "error"
        /\ plants = <<>>
        /\ occupied = <<>>

\* the organisms whose leaves computeLightAndEnergy() gathers
LeafBearing(p) == IsAlive(p) /\ p.stage # Seed /\ p.currentLeafCount > 0

\* the leaves of the population ps in the order the light pass processes them
PassOrder(ps) == SortLeaves(GatherLeaves(ps, 1))

\* the shadow map the light pass has built when it reads the light of the
\* j-th leaf of ls: the stamps of the leaves processed before it
ShadowReadBy(ls, j) ==
    SweepLeaves(SubSeq(ls, 1, j - 1), ClearShadow,
                [k \in 1 .. Len(plants) |-> 0]).shadow

\* the shadow map made of the stamps of the leaves of ls strictly higher than h
ShadowFromAbove(ls, h) ==
    SweepLeaves(SelectSeq(ls, LAMBDA l : l.z > h), ClearShadow,
                [k \in 1 .. Len(plants) |-> 0]).shadow

\* C19: in the light pass every leaf reads the lit area it would read under the
\* shadows of the leaves strictly higher than it alone: no leaf at its own
\* height or below takes light from it, two leaves of identical height included.
C19_ShadeOnlyFromAbove ==
    pc = "light" =>
        LET ls == PassOrder(plants)
        IN  \A j \in 1 .. Len(ls) :
               GetLitArea(ShadowReadBy(ls, j), ls[j].x, ls[j].y,
                          ls[j].leafSize, ls[j].leafOpacity)
                 = GetLitArea(ShadowFromAbove(ls, ls[j].z), ls[j].x, ls[j].y,
                              ls[j].leafSize, ls[j].leafOpacity)

\* the energy plant number k collects in one light pass over the population ps
Harvest(ps, k) == LightPass(ps).plants[k].energy - ps[k].energy

\* the population ps with plant number a absent
Without(ps, a) == SubSeq(ps, 1, a - 1) \o SubSeq(ps, a + 1, Len(ps))

\* the energy plant number b of ps collects in one light pass with plant a absent
HarvestWithout(ps, a, b) == Harvest(Without(ps, a), IF b < a THEN b ELSE b - 1)

\* C20 as stated: for leaf-bearing organisms A and B with the same x and A
\* taller than B, B collects strictly less in the light pass than it would with
\* A absent.
C20_TallerNeighbourShades ==
    pc = "light" =>
        \A a, b \in 1 .. Len(plants) :
            ( /\ a # b
              /\ LeafBearing(plants[a]) /\ LeafBearing(plants[b])
              /\ plants[a].x = plants[b].x
              /\ plants[a].currentHeight > plants[b].currentHeight ) =>
                Harvest(plants, b) < HarvestWithout(plants, a, b)

\* a leaf of plant a lies strictly higher than a leaf of plant b, has opacity,
\* and its footprint shares with that leaf's footprint a cell that the whole
\* light pass with a absent leaves short of full shade
Overshadows(ps, a, b) ==
    LET ls == PassOrder(ps)
        rest == LightPass(Without(ps, a)).shadow
    IN  \E i, j \in 1 .. Len(ls) :
           /\ ls[i].plantIndex = a
           /\ ls[j].plantIndex = b
           /\ ls[i].z > ls[j].z
           /\ ls[i].leafOpacity > 0
           /\ \E c \in Footprint(ls[i].x, ls[i].y, ls[i].leafSize)
                         \cap Footprint(ls[j].x, ls[j].y, ls[j].leafSize) :
                 rest[Index(c[1], c[2])] < 1000

\* C20, amended: for leaf-bearing organisms A and B, B never collects more in
\* the light pass than it would with A absent, and collects strictly less when
\* a leaf of A lies strictly higher than a leaf of B over a cell both leaves
\* cover and that is not fully shaded with A absent.
C20_ShadingReducesHarvest ==
    pc = "light" =>
        \A a, b \in 1 .. Len(plants) :
            (a # b /\ LeafBearing(plants[a]) /\ LeafBearing(plants[b])) =>
                /\ Harvest(plants, b) <= HarvestWithout(plants, a, b)
                /\ Overshadows(plants, a, b) =>
                      Harvest(plants, b) < HarvestWithout(plants, a, b)

\* C20 witness: the light pass is about to run on a population with two
\* leaf-bearing organisms at the same x, the taller with a leaf over a leaf of
\* the other
C20_Witness ==
    /\ pc = "light"
    /\ \E a, b \in 1 .. Len(plants) :
          /\ a # b
          /\ LeafBearing(plants[a]) /\ LeafBearing(plants[b])
          /\ plants[a].x = plants[b].x
          /\ plants[a].currentHeight > plants[b].currentHeight
          /\ Overshadows(plants, a, b)

----------------------------------------------------------------------------
(* A Grid used on its own: any sequence of its methods, with arguments inside *)
(* and outside the raster.  GridOps bounds the number of mutating calls.      *)

GridOps == 2

\* integer coordinates from one cell before the raster to one cell past it
ProbeX == -1 .. GridWidth
ProbeY == -1 .. GridHeight

\* centres (deci) along an axis of n cells: off the raster, on cell centres,
\* between cells and next to either edge
Centres(n) == {-5, 0, 4, 10 * (n - 1), 10 * n - 4}

\* leaf radii (deci) and opacities (milli)
Radii == {3, 10, 15}
Opacities == {500, 1000}

\* new Grid(GridWidth, GridHeight)
GridInit ==
    /\ occupied = EmptyOccupied
    /\ shadow = ClearShadow
    /\ pc = "grid"
    /\ calls = 0
    /\ lastCall = NoCall
    /\ energyScaleDiv = ENERGY_SCALE_DIV
    /\ twin = <<>>
    /\ plants = <<>>
    /\ seeds = <<>>
    /\ tick = 0
    /\ deathCounts = [energy |-> 0, age |-> 0, topple |-> 0, germination |-> 0]
    /\ nextPlantId = 0
    /\ pi = 1
    /\ rk = 0
    /\ newSeeds = <<>>
    /\ config = ModelConfig
    /\ onPlantAdded = FALSE
    /\ onPlantRemoved = FALSE
    /\ addedCalls = <<>>
    /\ removedCalls = <<>>

\* the simulation state a Grid call leaves alone
GridFrame ==
    UNCHANGED <<plants, seeds, tick, deathCounts, nextPlantId, pc, pi, rk,
                newSeeds, config, tuning, handlers, addedCalls, removedCalls>>

\* A read (isOccupied, getLight, getLitArea) leaves the grid as it was, so a
\* run is followed up to its first read: any sequence of mutating calls, then
\* one read of the grid they produced.
GridOpen ==
    /\ pc = "grid"
    /\ lastCall.op \notin {"isOccupied", "getLight", "getLitArea"}

\* grid.occupy(x, y, plantId)
GridOccupy ==
    /\ GridOpen
    /\ calls < GridOps
    /\ \E x \in ProbeX, y \in ProbeY, id \in {SeedMarker, 0} :
          /\ occupied' = Occupy(occupied, x, y, id)
          /\ lastCall' = [op |-> "occupy", args |-> <<x, y, id>>, ret |-> <<>>]
    /\ calls' = calls + 1
    /\ UNCHANGED shadow
    /\ GridFrame

\* grid.vacate(x, y)
GridVacate ==
    /\ GridOpen
    /\ calls < GridOps
    /\ \E x \in ProbeX, y \in ProbeY :
          /\ occupied' = Vacate(occupied, x, y)
          /\ lastCall' = [op |-> "vacate", args |-> <<x, y>>, ret |-> <<>>]
    /\ calls' = calls + 1
    /\ UNCHANGED shadow
    /\ GridFrame

\* grid.clearShadow()
GridClearShadow ==
    /\ GridOpen
    /\ calls < GridOps
    /\ shadow' = ClearShadow
    /\ lastCall' = [op |-> "clearShadow", args |-> <<>>, ret |-> <<>>]
    /\ calls' = calls + 1
    /\ UNCHANGED occupied
    /\ GridFrame

\* grid.stampLeafShadow(cx, cy, radius, opacity)
GridStamp ==
    /\ GridOpen
    /\ calls < GridOps
    /\ \E cx \in Centres(GridWidth), cy \in Centres(GridHeight),
          radius \in Radii, opacity \in Opacities :
          /\ shadow' = StampLeafShadow(shadow, cx, cy, radius, opacity)
          /\ lastCall' = [op |-> "stampLeafShadow",
                          args |-> <<cx, cy, radius, opacity>>, ret |-> <<>>]
    /\ calls' = calls + 1
    /\ UNCHANGED occupied
    /\ GridFrame

\* grid.isOccupied(x, y)
GridIsOccupied ==
    /\ GridOpen
    /\ \E x \in ProbeX, y \in ProbeY :
          lastCall' = [op |-> "isOccupied", args |-> <<x, y>>,
                       ret |-> <<IsOccupied(occupied, x, y)>>]
    /\ UNCHANGED <<occupied, shadow, calls>>
    /\ GridFrame

\* grid.getLight(x, y)
GridGetLight ==
    /\ GridOpen
    /\ \E x \in ProbeX, y \in ProbeY :
          lastCall' = [op |-> "getLight", args |-> <<x, y>>,
                       ret |-> <<GetLight(shadow, x, y)>>]
    /\ UNCHANGED <<occupied, shadow, calls>>
    /\ GridFrame

\* grid.getLitArea(cx, cy, radius, opacity)
GridGetLitArea ==
    /\ GridOpen
    /\ \E cx \in Centres(GridWidth), cy \in Centres(GridHeight),
          radius \in Radii, opacity \in Opacities :
          lastCall' = [op |-> "getLitArea", args |-> <<cx, cy, radius, opacity>>,
                       ret |-> <<GetLitArea(shadow, cx, cy, radius, opacity)>>]
    /\ UNCHANGED <<occupied, shadow, calls>>
    /\ GridFrame

GridNext ==
    \/ GridOccupy
    \/ GridVacate
    \/ GridClearShadow
    \/ GridStamp
    \/ GridIsOccupied
    \/ GridGetLight
    \/ GridGetLitArea

GridSpec == GridInit /\ [][GridNext]_vars

----------------------------------------------------------------------------
(* Properties of the Grid *)

\* (x, y) lies outside [0, width) x [0, height)
Outside(x, y) == x < 0 \/ x >= GridWidth \/ y < 0 \/ y >= GridHeight

\* C21: in every grid state, for every coordinate pair outside
\* [0,width) x [0,height), isOccupied returns true and getLight returns 0.
C21_OutsideOccupiedAndDark ==
    /\ \A x \in ProbeX, y \in ProbeY :
          Outside(x, y) =>
             /\ IsOccupied(occupied, x, y) = TRUE
             /\ GetLight(shadow, x, y) = 0
    /\ (lastCall.op = "isOccupied" /\ Outside(lastCall.args[1], lastCall.args[2]))
          => lastCall.ret = <<TRUE>>
    /\ (lastCall.op = "getLight" /\ Outside(lastCall.args[1], lastCall.args[2]))
          => lastCall.ret = <<0>>

\* isOccupied was called with a coordinate outside a grid that has a vacant
\* cell, a marked cell and some shadow
C21_Witness ==
    /\ lastCall.op = "isOccupied"
    /\ Outside(lastCall.args[1], lastCall.args[2])
    /\ \E i \in Cells : occupied[i] = Vacant
    /\ \E i \in Cells : occupied[i] # Vacant
    /\ \E i \in Cells : shadow[i] > 0

\* the cells of the raster within `radius` of the centre (deci)
CellsWithin(cx, cy, radius) ==
    { c \in (0 .. GridWidth - 1) \X (0 .. GridHeight - 1) :
        (10 * c[1] - cx) * (10 * c[1] - cx) + (10 * c[2] - cy) * (10 * c[2] - cy)
           <= radius * radius }

\* C22: on a grid with no stamped shadow, getLitArea(cx, cy, r, p) is p times
\* the number of grid cells (x, y) with (x-cx)^2 + (y-cy)^2 <= r^2, for every
\* centre and radius (full light is 1000 milli, so the product is in micro).
C22_LitAreaCountsCells ==
    (lastCall.op = "getLitArea" /\ shadow = ClearShadow) =>
       lastCall.ret = << lastCall.args[4] * 1000
                         * Cardinality(CellsWithin(lastCall.args[1],
                                                   lastCall.args[2],
                                                   lastCall.args[3])) >>

\* getLitArea was called on a cleared grid with a centre between cells whose
\* circle is cut by the edge of the raster and has a cell exactly on its rim
C22_Witness ==
    /\ lastCall.op = "getLitArea"
    /\ shadow = ClearShadow
    /\ calls > 0
    /\ lastCall.args[1] % 10 # 0
    /\ lastCall.ret[1] > 0
    /\ lastCall.args[1] + lastCall.args[3] > 10 * (GridWidth - 1)

----------------------------------------------------------------------------
(* Properties of organism identity *)

\* the ids of the organisms in a population
IdsOf(ps) == { ps[k].id : k \in 1 .. Len(ps) }

\* C23: every organism receives an id different from the id of every organism
\* created before it, dead and removed ones included.  The counter is above
\* every id handed out so far and never decreases; the organisms present have
\* pairwise different ids; and an organism that appears in a step has an id at
\* or above the counter's value before the step.
C23_IdsNeverReused ==
    /\ [](/\ \A k \in 1 .. Len(plants) : plants[k].id < nextPlantId
          /\ \A j, k \in 1 .. Len(plants) : plants[j].id = plants[k].id => j = k)
    /\ [][/\ nextPlantId' >= nextPlantId
          /\ \A id \in IdsOf(plants') \ IdsOf(plants) : id >= nextPlantId]_vars

\* an organism has just been created by germination after an earlier cleanup
\* removed a dead organism
C23_Witness ==
    /\ pc = "cleanup"
    /\ DeathTotal > 0
    /\ \E k \in 1 .. Len(plants) :
          /\ plants[k].age = 0
          /\ plants[k].id = nextPlantId - 1
          /\ plants[k].id >= InitialPlants

----------------------------------------------------------------------------
(* Properties of the life cycle under tick() *)

\* C24: an organism's stage never moves backwards in the order
\* Seed < Seedling < Growing < Mature < Dead under any sequence of tick() calls.
C24_StageNeverRetreats ==
    [][TickCall => Organism'.stage >= Organism.stage]_vars

\* ticks have taken an organism past a height of 1 and on to Mature, which it
\* reached by age, below 90% of its maxHeight
C24_Witness ==
    /\ calls >= 2
    /\ Organism.stage = Mature
    /\ Organism.currentHeight > 10
    /\ 10 * Organism.currentHeight < Organism.traits.maxHeight * MATURITY_HEIGHT_TENTHS

\* C28: an organism dies with cause "topple" only in a tick in which it is past
\* the Seed stage, does not die of age, and its trunkGirth is strictly less
\* than its height at the start of the tick times the stability coefficient
\* 0.1; an organism with stability ratio >= 1 never topples.
C28_ToppleOnlyWhenTopHeavy ==
    [][(TickCall /\ Organism.deathCause # "topple" /\ Organism'.deathCause = "topple")
          => /\ Organism.stage \in {Seedling, Growing, Mature}
             /\ Organism.age + 1 < Organism.traits.maxAge
             /\ 10 * Organism.traits.trunkGirth < Organism.currentHeight]_vars

\* an organism has toppled
C28_Witness ==
    /\ Organism.stage = Dead
    /\ Organism.deathCause = "topple"
    /\ 10 * Organism.traits.trunkGirth < Organism.currentHeight

\* the stage the maturity check leaves an organism in, from its stage before
\* the tick and its height and age after it
StageAfter(before, after) ==
    IF \/ 10 * after.currentHeight >= 9 * after.traits.maxHeight
       \/ after.age >= after.traits.maturityAge
    THEN Mature
    ELSE IF before.stage = Growing \/ after.currentHeight > 10
    THEN Growing
    ELSE Seedling

\* C29: whenever tick() returns for an organism that was Seedling or Growing at
\* the start of the tick and is not Dead at the end, it is Mature if its height
\* is >= 90% of maxHeight or its age is >= maturityAge; otherwise it is Growing
\* if it was Growing or its height is > 1, and Seedling otherwise.
C29_StageAfterTick ==
    [][(/\ TickCall
        /\ Organism.stage \in {Seedling, Growing}
        /\ Organism'.stage # Dead)
          => Organism'.stage = StageAfter(Organism, Organism')]_vars

\* a tick has left a Seedling in stage Growing: it grew past a height of 1 and
\* is neither tall enough nor old enough to be Mature
C29_Witness ==
    /\ calls = 1
    /\ Organism.stage = Growing
    /\ Organism.age < Organism.traits.maturityAge
    /\ 10 * Organism.currentHeight < 9 * Organism.traits.maxHeight

\* germinationBurn of tick(), micro
GerminationBurnOf(p) == GERMINATION_BURN \div Max(1, p.traits.germinationSpeed)

\* what a tick of a Seed leaves alone: height, leaf count and biomass
SeedTickFrame ==
    /\ Organism'.currentHeight = Organism.currentHeight
    /\ Organism'.currentLeafCount = Organism.currentLeafCount
    /\ Organism'.biomass = Organism.biomass
    /\ Organism'.age = Organism.age + 1

\* the burn and the countdown of the Seed branch, and its outcome: energy
\* falls by the burn alone (no maintenance), the countdown by one
SeedTickOutcome ==
    /\ Organism'.energy = Organism.energy - GerminationBurnOf(Organism)
    /\ Organism'.germinationTimer = Organism.germinationTimer - 1
    /\ IF Organism'.energy <= 0
       THEN Organism'.stage = Dead /\ Organism'.deathCause = "germination"
       ELSE /\ Organism'.deathCause = NoCause
            /\ Organism'.stage = IF Organism'.germinationTimer <= 0
                                 THEN Seedling ELSE Seed

\* C30 as stated: a tick() of an organism in stage Seed leaves height, leaf
\* count and biomass unchanged, charges the germination burn and no
\* maintenance, and ends Dead("germination") if energy after the burn is <= 0
\* (even when the countdown also reached 0), else Seedling if the countdown is
\* <= 0, else still Seed.
C30_SeedTick ==
    [][(TickCall /\ Organism.stage = Seed) => (SeedTickFrame /\ SeedTickOutcome)]_vars

\* C30, amended: the same for a Seed whose age after the tick is below maxAge;
\* a Seed that reaches maxAge in the tick ends Dead("age") with energy and
\* countdown as they were (no burn is charged).
C30_SeedTickBelowAgeLimit ==
    [][(TickCall /\ Organism.stage = Seed) =>
          /\ SeedTickFrame
          /\ IF Organism.age + 1 < Organism.traits.maxAge
             THEN SeedTickOutcome
             ELSE /\ Organism'.stage = Dead
                  /\ Organism'.deathCause = "age"
                  /\ Organism'.energy = Organism.energy
                  /\ Organism'.germinationTimer = Organism.germinationTimer]_vars

\* a Seed whose countdown reached 0 in the tick that took its energy to 0 or
\* below has died of germination
C30_Witness ==
    /\ calls = 1
    /\ Organism.deathCause = "germination"
    /\ Organism.germinationTimer <= 0
    /\ Organism.energy <= 0
    /\ Organism.currentHeight = 0

\* C25: across any sequence of step() calls, an organism's current height and
\* current leaf count never decrease.  An organism is followed by its id from
\* one state of the population to the next.
C25_HeightAndLeavesNeverShrink ==
    [][\A j \in 1 .. Len(plants), k \in 1 .. Len(plants') :
          plants[j].id = plants'[k].id =>
             /\ plants'[k].currentHeight >= plants[j].currentHeight
             /\ plants'[k].currentLeafCount >= plants[j].currentLeafCount]_vars

\* an organism of the population has grown in height and put on a leaf
C25_Witness ==
    \E k \in 1 .. Len(plants) :
       /\ plants[k].currentHeight > 10
       /\ plants[k].currentLeafCount > 0
       /\ plants[k].age >= 2

----------------------------------------------------------------------------
(* Genome.ts: traitValue and mutateGenome.                                   *)
(*                                                                           *)
(* Units.  A gene is in 1/10^6 ("micro"): 0 is the double 0, 1000000 the     *)
(* double 1, and a double strictly between 0 and 1 is a value from 1 to      *)
(* 999999 (doubles below 10^-6 or above 1 - 10^-6 are 1 and 999999, the      *)
(* bounds logit() clamps its argument to).  A logit is in 1/1000.  A trait   *)
(* value and a trait's base are in 1/10^4, the size of TRAIT_MIN.  k is in   *)
(* tenths.  Math.log and Math.exp are tabulated at the points the model      *)
(* reaches.                                                                  *)

TRAIT_DEFS ==
    << [name |-> "maxHeight",        base |-> 200000,   k |-> 30, integer |-> FALSE, linear |-> FALSE],
       [name |-> "growthRate",       base |-> 2000,     k |-> 20, integer |-> FALSE, linear |-> FALSE],
       [name |-> "trunkGirth",       base |-> 20000,    k |-> 12, integer |-> FALSE, linear |-> FALSE],
       [name |-> "leafSize",         base |-> 50000,    k |-> 20, integer |-> FALSE, linear |-> FALSE],
       [name |-> "leafCount",        base |-> 80000,    k |-> 20, integer |-> TRUE,  linear |-> FALSE],
       [name |-> "branchLength",     base |-> 80000,    k |-> 20, integer |-> FALSE, linear |-> FALSE],
       [name |-> "leafOpacity",      base |-> 10000,    k |-> 0,  integer |-> FALSE, linear |-> TRUE],
       [name |-> "seedRange",        base |-> 20000,    k |-> 0,  integer |-> FALSE, linear |-> TRUE],
       [name |-> "seedEnergy",       base |-> 350000,   k |-> 20, integer |-> FALSE, linear |-> FALSE],
       [name |-> "germinationSpeed", base |-> 500000,   k |-> 15, integer |-> TRUE,  linear |-> FALSE],
       [name |-> "photoEfficiency",  base |-> 10000,    k |-> 15, integer |-> FALSE, linear |-> FALSE],
       [name |-> "maturityAge",      base |-> 1500000,  k |-> 15, integer |-> TRUE,  linear |-> FALSE],
       [name |-> "maxAge",           base |-> 10000000, k |-> 20, integer |-> TRUE,  linear |-> FALSE] >>

\* 1e-4 and 1e4
TRAIT_MIN == 1
TRAIT_MAX == 100000000

\* the double 1, and the clamp bounds 1e-6 and 1 - 1e-6 of logit()
GENE_ONE == 1000000
LOGIT_CLAMP_LO == 1
LOGIT_CLAMP_HI == 999999

\* +Infinity; its negation is -Infinity
Infinity == 1000000000

\* logit(x): ln(1e-6 / (1 - 1e-6)) = -13.8155, ln(0.2 / 0.8) = -1.3863,
\* ln(1) = 0, and their mirror images
Logit(x) ==
    LET clamped == Max(LOGIT_CLAMP_LO, Min(LOGIT_CLAMP_HI, x))
    IN  CASE clamped = LOGIT_CLAMP_LO -> -13816
          [] clamped = 200000 -> -1386
          [] clamped = 500000 -> 0
          [] clamped = 800000 -> 1386
          [] clamped = LOGIT_CLAMP_HI -> 13816

\* sigmoid(x) = 1 / (1 + Math.exp(-x)) in doubles.  Math.exp(-x) is at most
\* 2^-53 from x = 53 ln 2 = 36.7368 on, and 1 + Math.exp(-x) is then the double
\* 1; Math.exp(-x) is Infinity from -x = 709.783 on, and 1 / (1 + Infinity)
\* is 0.  In between the result is strictly between 0 and 1.
SIGMOID_ONE_FROM == 36737
SIGMOID_ZERO_UPTO == -709783

Sigmoid(x) ==
    IF x >= SIGMOID_ONE_FROM THEN GENE_ONE
    ELSE IF x <= SIGMOID_ZERO_UPTO THEN 0
    ELSE IF x > 13816 THEN LOGIT_CLAMP_HI
    ELSE IF x < -13816 THEN LOGIT_CLAMP_LO
    ELSE CASE x = -13816 -> 1
           [] x = -13736 -> 1
           [] x = -1466 -> 187507
           [] x = -1386 -> 200000
           [] x = -1306 -> 213108
           [] x = -80 -> 480011
           [] x = 0 -> 500000
           [] x = 80 -> 519989
           [] x = 1306 -> 786892
           [] x = 1386 -> 800000
           [] x = 1466 -> 812493
           [] x = 13736 -> 999999
           [] x = 13816 -> 999999

\* Math.exp(k * l) for a logit l, as a fraction num / den: (0.8 / 0.2)^k is
\* 5.278, 8, 16 and 64 for k = 1.2, 1.5, 2 and 3; at the clamp bounds the odds
\* are 10^-6 and 10^6, whose powers are 6.3e-8 and 1.58e7 for k = 1.2, 1e-9 and
\* 1e9 for k = 1.5, and beyond 1e-9 and 1e9 for k = 2 and 3, entered as 0 and
\* as 10^9
ExpKLogit(k, l) ==
    LET up == CASE k = 12 -> <<5278, 1000, 15848913, 63>>
                [] k = 15 -> <<8, 1, 1000000000, 1>>
                [] k = 20 -> <<16, 1, 1000000000, 0>>
                [] k = 30 -> <<64, 1, 1000000000, 0>>
    IN  CASE l = 0 -> [num |-> 1, den |-> 1]
          [] l = 1386 -> [num |-> up[1], den |-> up[2]]
          [] l = -1386 -> [num |-> up[2], den |-> up[1]]
          [] l = 13816 -> [num |-> up[3], den |-> 1]
          [] l = -13816 -> [num |-> up[4], den |-> 1000000000]

\* gene * def.base, the gene in micro: formed in two parts to stay within the
\* integers of the model
ScaleByGene(gene, base) ==
    ((gene \div 1000) * base) \div 1000 + ((gene % 1000) * base) \div 1000000

\* Math.min(TRAIT_MAX, def.base * f) for a fraction f: the product is formed
\* only where it stays within the integers of the model; where it is not
\* formed it is above TRAIT_MAX
CappedProduct(base, f) ==
    IF f.num \div f.den > TRAIT_MAX \div base THEN TRAIT_MAX
    ELSE Min(TRAIT_MAX, (base * f.num) \div f.den)

\* traitValue with `Math.max(TRAIT_MIN, ...)` left out
TraitValueNoFloor(gene, def) ==
    LET val == IF def.linear THEN ScaleByGene(gene, def.base)
               ELSE CappedProduct(def.base, ExpKLogit(def.k, Logit(gene)))
        clamped == Min(TRAIT_MAX, val)
    IN  IF def.integer THEN Max(10000, (clamped \div 10000) * 10000) ELSE clamped

\* traitValue(gene, def)
TraitValue(gene, def) ==
    LET val == IF def.linear THEN ScaleByGene(gene, def.base)
               ELSE CappedProduct(def.base, ExpKLogit(def.k, Logit(gene)))
        clamped == Max(TRAIT_MIN, Min(TRAIT_MAX, val))
    IN  IF def.integer THEN Max(10000, (clamped \div 10000) * 10000) ELSE clamped

\* gaussianRandom(mean, stddev) for a draw z of the standard normal (milli):
\* mean + z * stddev.  z is +-Infinity when Math.random() returns 0 for u1
\* (Math.log(0) is -Infinity), and the sum is then +-Infinity for stddev > 0.
GaussianRandom(mean, stddev, z) ==
    IF z = Infinity \/ z = -Infinity THEN z
    ELSE mean + (z * stddev) \div 1000

\* mutateGenome(parent, mutationRate), one gene: mutationRate in milli
MutateGene(parent, mutationRate, z) ==
    LET parentLogit == Logit(parent)
        noise == GaussianRandom(0, mutationRate * 4, z)
        mutatedLogit == IF noise = Infinity \/ noise = -Infinity
                        THEN noise ELSE parentLogit + noise
    IN  Sigmoid(mutatedLogit)

----------------------------------------------------------------------------
(* The Genome functions called on their own *)

\* genes: the doubles 0 and 1, the clamp bounds of logit, 0.2, 0.5 and 0.8
GeneValues == {0, LOGIT_CLAMP_LO, 200000, 500000, 800000, LOGIT_CLAMP_HI, GENE_ONE}

\* mutation rates (milli): the default 0.02, and 10
MutationRates == {20, 10000}

\* draws of z in gaussianRandom (milli): -1, 0, 1, and the two draws with u1 = 0
NormalDraws == {-1000, 0, 1000, Infinity, -Infinity}

GenomeInit ==
    /\ pc = "genome"
    /\ lastCall = NoCall
    /\ energyScaleDiv = ENERGY_SCALE_DIV
    /\ twin = <<>>
    /\ plants = <<>>
    /\ seeds = <<>>
    /\ occupied = EmptyOccupied
    /\ shadow = ClearShadow
    /\ tick = 0
    /\ deathCounts = [energy |-> 0, age |-> 0, topple |-> 0, germination |-> 0]
    /\ nextPlantId = 0
    /\ pi = 1
    /\ rk = 0
    /\ newSeeds = <<>>
    /\ config = ModelConfig
    /\ calls = 0
    /\ onPlantAdded = FALSE
    /\ onPlantRemoved = FALSE
    /\ addedCalls = <<>>
    /\ removedCalls = <<>>

\* traitValue(gene, TRAIT_DEFS[i])
TraitValueCall ==
    /\ pc = "genome"
    /\ \E gene \in GeneValues, i \in 1 .. Len(TRAIT_DEFS) :
          lastCall' = [op |-> "traitValue", args |-> <<gene, i>>,
                       ret |-> <<TraitValue(gene, TRAIT_DEFS[i])>>]
    /\ UNCHANGED <<occupied, shadow, calls>>
    /\ GridFrame

\* mutateGenome(parent, mutationRate): one gene of the loop
MutateGenomeCall ==
    /\ pc = "genome"
    /\ \E parent \in GeneValues, rate \in MutationRates, z \in NormalDraws :
          lastCall' = [op |-> "mutateGenome", args |-> <<parent, rate, z>>,
                       ret |-> <<MutateGene(parent, rate, z)>>]
    /\ UNCHANGED <<occupied, shadow, calls>>
    /\ GridFrame

GenomeNext == TraitValueCall \/ MutateGenomeCall

GenomeSpec == GenomeInit /\ [][GenomeNext]_vars

----------------------------------------------------------------------------
(* Properties of the Genome functions *)

\* the trait definition a traitValue call was made with, and its gene
CalledDef == TRAIT_DEFS[lastCall.args[2]]
CalledGene == lastCall.args[1]

\* C26 as stated: decoding gene 0.5 for a non-linear trait yields exactly the
\* trait's base value, and decoding a linear trait yields 0 at gene = 0 and
\* the trait's base value at gene = 1.
C26_DecodeAnchors ==
    lastCall.op = "traitValue" =>
       /\ (~CalledDef.linear /\ CalledGene = 500000) => lastCall.ret = <<CalledDef.base>>
       /\ (CalledDef.linear /\ CalledGene = 0) => lastCall.ret = <<0>>
       /\ (CalledDef.linear /\ CalledGene = GENE_ONE) => lastCall.ret = <<CalledDef.base>>

\* C26, amended: decoding gene 0.5 for a non-linear trait yields exactly the
\* trait's base value; decoding a linear trait yields TRAIT_MIN (0.0001, the
\* product 0 clamped up) at gene = 0 and the trait's base value at gene = 1.
C26_DecodeAnchorsClamped ==
    lastCall.op = "traitValue" =>
       /\ (~CalledDef.linear /\ CalledGene = 500000) => lastCall.ret = <<CalledDef.base>>
       /\ (CalledDef.linear /\ CalledGene = 0) => lastCall.ret = <<TRAIT_MIN>>
       /\ (CalledDef.linear /\ CalledGene = GENE_ONE) => lastCall.ret = <<CalledDef.base>>

\* a linear trait has been decoded at gene = 0
C26_Witness ==
    /\ lastCall.op = "traitValue"
    /\ CalledDef.linear
    /\ CalledGene = 0
    /\ lastCall.ret = <<TRAIT_MIN>>

\* C27: mutateGenome never returns a gene <= 0 or >= 1, for any parent gene
\* and any finite mutation rate.
C27_ChildGeneStaysInside ==
    lastCall.op = "mutateGenome" =>
       (lastCall.ret[1] > 0 /\ lastCall.ret[1] < GENE_ONE)

----------------------------------------------------------------------------
(* Properties of the shadow stamp *)

\* C33: stampLeafShadow(cx, cy, radius, opacity) increases by exactly opacity
\* the shadow of every in-grid cell (x, y) with (x-cx)^2 + (y-cy)^2 <= radius^2,
\* and leaves the shadow of every other cell and the whole occupancy map
\* unchanged.
C33_StampAddsOpacityInsideCircle ==
    [][(calls' = calls + 1 /\ lastCall'.op = "stampLeafShadow") =>
          LET a == lastCall'.args
              inside == { Index(c[1], c[2]) : c \in CellsWithin(a[1], a[2], a[3]) }
          IN  /\ \A i \in Cells :
                    shadow'[i] = shadow[i] + (IF i \in inside THEN a[4] ELSE 0)
              /\ occupied' = occupied]_vars

\* a second stamp has landed on a grid with a marked cell: one cell carries
\* both stamps and another cell carries none
C33_Witness ==
    /\ lastCall.op = "stampLeafShadow"
    /\ calls = GridOps
    /\ \E i \in Cells : shadow[i] > lastCall.args[4]
    /\ \E i \in Cells : shadow[i] = 0

----------------------------------------------------------------------------
(* Properties of the light pass as a whole *)

\* what the j-th leaf of ls adds to its plant's accumulator: the lit area under
\* the stamps of the leaves before it, times 1 - exp(-photoEfficiency)
LeafGain(ls, j) ==
    (GetLitArea(ShadowReadBy(ls, j), ls[j].x, ls[j].y, ls[j].leafSize,
                ls[j].leafOpacity) \div 1000) * OneMinusExp(ls[j].photoEfficiency)

\* energyByPlant.get(k) once the last leaf of ls has been read: the gains of
\* the leaves of plant number k from the j-th leaf on
RECURSIVE GainTotal(_, _, _)
GainTotal(ls, k, j) ==
    IF j > Len(ls) THEN 0
    ELSE (IF ls[j].plantIndex = k THEN LeafGain(ls, j) ELSE 0) + GainTotal(ls, k, j + 1)

\* C32: the light pass never decreases any organism's energy and changes no
\* organism field other than energy; an organism that is Dead, in stage Seed or
\* without leaves keeps its energy; and every deposit is made only after all
\* leaves have been read and stamped: the shadow map left behind carries the
\* stamp of every leaf, and each organism receives one deposit, the scaled
\* total of the gains of all its leaves.
C32_LightPassOnlyAddsEnergy ==
    [][((pc = "plant" /\ pc' = "plant_lit") \/ (pc = "light" /\ pc' = "tick")) =>
          LET ls == PassOrder(plants)
          IN  /\ Len(plants') = Len(plants)
              /\ shadow' = ShadowReadBy(ls, Len(ls) + 1)
              /\ \A k \in 1 .. Len(plants) :
                    /\ plants'[k] = [plants[k] EXCEPT !.energy = plants'[k].energy]
                    /\ plants'[k].energy >= plants[k].energy
                    /\ ~LeafBearing(plants[k]) => plants'[k].energy = plants[k].energy
                    /\ plants'[k].energy =
                          plants[k].energy + GainTotal(ls, k, 1) \div ENERGY_SCALE_DIV]_vars

\* the pass has just run over a living organism with a leaf: the leaf has left
\* its stamp and the organism has its deposit
C32_Witness ==
    /\ pc = "plant_lit"
    /\ LeafBearing(Organism)
    /\ \E i \in Cells : shadow[i] = Organism.traits.leafOpacity
    /\ Organism.energy > 0

----------------------------------------------------------------------------
(* Properties of reproduction and germination *)

\* C31: seeds are created in a step only by organisms that are Mature after
\* that step's tick phase and whose age is an exact multiple of
\* max(1, floor(0.05 x maxAge)); an organism that became Dead in the tick phase
\* creates no seed in that step. A seed is created by the organism that pays
\* for it.
C31_SeedsOnlyFromMatureOnInterval ==
    [][(pc = "reproduce" /\ Len(newSeeds') > Len(newSeeds)) =>
          /\ \E k \in 1 .. Len(plants) : plants'[k].energy < plants[k].energy
          /\ \A k \in 1 .. Len(plants) :
                plants'[k] # plants[k] =>
                   /\ plants[k].stage = Mature
                   /\ plants[k].deathCause = NoCause
                   /\ plants[k].age % Max(1, plants[k].traits.maxAge \div 20) = 0]_vars

\* an organism with reproInterval 2 is creating seeds at age 2, next to an
\* organism that died in the tick phase of the same step
C31_Witness ==
    /\ pc = "reproduce"
    /\ rk > 0
    /\ plants[pi].traits.maxAge \div 20 = 2
    /\ plants[pi].age = 2
    /\ \E k \in 1 .. Len(plants) : plants[k].stage = Dead

\* C34: every organism spawned from a seed starts in stage Seedling with age 0
\* and zero leaves, energy equal to the seed's stored energy, and generation one
\* greater than the generation of the parent that produced the seed (the seed
\* is pushed with the generation of the paying parent plus one, and the
\* organism takes the generation of the seed on its cell); the cleanup that
\* ends the step keeps it exactly as spawned, so it is neither ticked nor lit
\* in the step in which it is spawned.
C34_SpawnedFromSeed ==
    [][/\ (pc = "reproduce" /\ Len(newSeeds') > Len(newSeeds)) =>
             \E k \in 1 .. Len(plants) :
                /\ plants'[k].energy < plants[k].energy
                /\ newSeeds'[Len(newSeeds')].generation = plants[k].generation + 1
       /\ pc = "germinate" =>
             \A k \in Len(plants) + 1 .. Len(plants') :
                /\ plants'[k].stage = Seedling
                /\ plants'[k].age = 0
                /\ plants'[k].currentLeafCount = 0
                /\ \E i \in 1 .. Len(seeds) :
                      /\ seeds[i].x = plants'[k].x
                      /\ seeds[i].y = plants'[k].y
                      /\ seeds[i].energy = plants'[k].energy
                      /\ seeds[i].generation = plants'[k].generation
                      /\ seeds[i].traits = plants'[k].traits
       /\ pc = "cleanup" =>
             \A k \in 1 .. Len(plants) :
                plants[k].age = 0 => \E j \in 1 .. Len(plants') : plants'[j] = plants[k]
       /\ pc \in {"germinate", "cleanup"} => pc' \notin {"light", "tick"}]_vars

\* a step has ended with an organism spawned in it from the seed of a parent
\* that was itself spawned from a seed
C34_Witness ==
    /\ pc = "idle"
    /\ \E k \in 1 .. Len(plants) :
          /\ plants[k].age = 0
          /\ plants[k].generation = 2
          /\ plants[k].stage = Seedling

\* C36: in every reachable simulation state, every organism's current height is
\* at most its maxHeight trait.
C36_HeightWithinMaxHeight ==
    \A k \in 1 .. Len(plants) : plants[k].currentHeight <= plants[k].traits.maxHeight

\* the initial countdown of a seed: reproduce() sets germinationTimer to the
\* germinationSpeed trait of the seed's own genome
Countdown(seed) == seed.traits.germinationSpeed

\* the seed is due in the coming germination phase: it is the phase whose
\* number, counted from the seed's creation, is the seed's initial countdown,
\* and that number is at most 150
Due(seed) == seed.age + 1 = Countdown(seed) /\ Countdown(seed) <= 150

\* the seed stays pending through the coming germination phase
Stays(seed) == seed.age + 1 < Countdown(seed) /\ seed.age + 1 <= 150

\* C38: a seed's age is the number of germination phases it has been through
\* and its countdown has dropped by the same number; between step() calls
\* every pending seed has age at most 150 (so it leaves the pending set within
\* 151 phases of its creation); a germination phase keeps exactly the seeds
\* that are neither due nor past age 150, spawns organisms only on the cells of
\* due seeds, and spawns one when a seed is due and the population is below
\* its maximum; a seed with countdown above 150 is never due; and outside
\* the germination phase the pending set changes only by new seeds of age 0,
\* so a seed that has left is never requeued.
C38_SeedLeavesWhenDueOrExpired ==
    /\ [](\A i \in 1 .. Len(seeds) :
             /\ seeds[i].germinationTimer = Countdown(seeds[i]) - seeds[i].age
             /\ pc = "idle" => seeds[i].age <= 150 /\ seeds[i].germinationTimer >= 1)
    /\ [][/\ pc = "germinate" =>
                LET kept == SelectSeq(seeds, Stays)
                IN  /\ seeds' = [i \in 1 .. Len(kept) |->
                                   [kept[i] EXCEPT !.age = @ + 1,
                                                   !.germinationTimer = @ - 1]]
                    /\ \A k \in Len(plants) + 1 .. Len(plants') :
                          \E i \in 1 .. Len(seeds) :
                             /\ Due(seeds[i])
                             /\ seeds[i].x = plants'[k].x
                             /\ seeds[i].y = plants'[k].y
                    /\ ((\E i \in 1 .. Len(seeds) : Due(seeds[i]))
                          /\ LivingCount(plants) < config.maxPlants)
                         => Len(plants') > Len(plants)
          /\ pc # "germinate" =>
                \/ seeds' = seeds
                \/ /\ Len(seeds') > Len(seeds)
                   /\ SubSeq(seeds', 1, Len(seeds)) = seeds
                   /\ \A i \in Len(seeds) + 1 .. Len(seeds') :
                         seeds'[i].age = 0]_vars

\* the 150th germination phase of two seeds has just run: the seed with
\* countdown 150 has been spawned, the seed with a countdown above 150 is
\* still pending at age 150
C38_Witness ==
    /\ pc = "cleanup"
    /\ tick = 150
    /\ \E k \in 1 .. Len(plants) :
          plants[k].age = 0 /\ plants[k].traits.germinationSpeed = 150
    /\ \E i \in 1 .. Len(seeds) :
          seeds[i].age = 150 /\ Countdown(seeds[i]) > 150

----------------------------------------------------------------------------
(* Properties of the population between steps *)

\* C39: between step() calls every occupied grid cell has an owner: a cell
\* marked with an organism id is the anchor cell of a living organism of the
\* population with that id, and a cell marked with the reservation marker
\* holds a pending seed.
C39_EveryMarkHasAnOwner ==
    pc = "idle" =>
        \A x \in 0 .. GridWidth - 1 : \A y \in 0 .. GridHeight - 1 :
           LET mark == occupied[Index(x, y)]
           IN  /\ mark >= 0 =>
                     \E k \in 1 .. Len(plants) :
                        /\ IsAlive(plants[k])
                        /\ plants[k].id = mark
                        /\ plants[k].x = x
                        /\ plants[k].y = y
               /\ mark = SeedMarker =>
                     \E i \in 1 .. Len(seeds) : seeds[i].x = x /\ seeds[i].y = y
               /\ mark \in {Vacant, SeedMarker} \cup (0 .. nextPlantId - 1)

\* a step has ended in which an organism was removed, with a cell that carries
\* the id of an organism spawned from a seed and a cell reserved for a pending
\* seed
C39_Witness ==
    /\ pc = "idle"
    /\ DeathTotal > 0
    /\ \E i \in Cells : occupied[i] >= InitialPlants
    /\ \E i \in Cells : occupied[i] = SeedMarker
    /\ \E i \in Cells : occupied[i] = Vacant

\* C37: between step() calls every organism in the population is alive with
\* age strictly less than its maxAge trait; the age of an organism is the
\* number of steps made since it joined the population (every step ticks every
\* organism of the population once and adds one to its age, and nothing else
\* changes an age), so an organism is gone after the cleanup of the maxAge-th
\* step after it joined, at the latest.
C37_AgeBelowMaxAgeBetweenSteps ==
    /\ [](pc = "idle" =>
             \A k \in 1 .. Len(plants) :
                /\ IsAlive(plants[k])
                /\ plants[k].age < plants[k].traits.maxAge
                /\ plants[k].age <= tick)
    /\ [][/\ (pc = "tick" /\ pi <= Len(plants)) =>
                /\ plants'[pi].age = plants[pi].age + 1
                /\ \A k \in 1 .. Len(plants) : k # pi => plants'[k] = plants[k]
          /\ (pc = "tick" /\ pc' # "tick") => pi > Len(plants)
          /\ (pc \in {"idle", "light", "reproduce", "germinate"}) =>
                \A k \in 1 .. Len(plants) : plants'[k].age = plants[k].age
          /\ pc = "germinate" =>
                \A k \in Len(plants) + 1 .. Len(plants') : plants'[k].age = 0
          /\ pc = "cleanup" =>
                \A j \in 1 .. Len(plants') :
                   \E k \in 1 .. Len(plants) : plants'[j] = plants[k]]_vars

\* the last step has ended: organisms have died of age and been removed, and a
\* founder one step short of its maxAge is still in the population
C37_Witness ==
    /\ pc = "idle"
    /\ tick = MaxTick
    /\ deathCounts.age > 0
    /\ \E k \in 1 .. Len(plants) :
          plants[k].age = tick /\ plants[k].age = plants[k].traits.maxAge - 1

\* C40: no organism in a Simulation's population is ever in stage Seed, so no
\* organism ever has the death cause "germination" and the germination death
\* counter stays 0.
C40_NoSeedStageInPopulation ==
    /\ \A k \in 1 .. Len(plants) :
          plants[k].stage # Seed /\ plants[k].deathCause # "germination"
    /\ deathCounts.germination = 0

\* the last step has ended with founders and organisms spawned from seeds in
\* the run, and deaths counted
C40_Witness ==
    /\ pc = "idle"
    /\ tick = MaxTick
    /\ DeathTotal >= InitialPlants
    /\ \E k \in 1 .. Len(plants) : plants[k].id >= InitialPlants /\ plants[k].age > 0

----------------------------------------------------------------------------
(* Two Simulations in one process.  ENERGY_SCALE is a module-level `export   *)
(* let` of Simulation.ts, written by setEnergyScale(v) and read by            *)
(* computeLightAndEnergy() of every Simulation of the process.  The owner of  *)
(* one Simulation calls the setter; `plants` follows the other Simulation, a  *)
(* single founder, through its light passes and ticks, and `twin` follows the *)
(* same Simulation, with the same random draws, in a process where the        *)
(* setter is never called.                                                    *)

\* the values passed to setEnergyScale(), as divisors: 0.02, 0.01, 0.005
ScaleDivs == {50, 100, 200}

TuningInit ==
    /\ \E tr \in Profiles :
          plants = <<[NewPlant(0, 0, 0, tr, tr.seedEnergy * 2, 0)
                        EXCEPT !.stage = Seedling, !.currentHeight = 10]>>
    /\ twin = plants
    /\ energyScaleDiv = ENERGY_SCALE_DIV
    /\ nextPlantId = 1
    /\ seeds = <<>>
    /\ occupied = Occupy(EmptyOccupied, 0, 0, 0)
    /\ shadow = ClearShadow
    /\ tick = 0
    /\ deathCounts = [energy |-> 0, age |-> 0, topple |-> 0, germination |-> 0]
    /\ pc = "tuned"
    /\ pi = 1
    /\ rk = 0
    /\ newSeeds = <<>>
    /\ config = ModelConfig
    /\ calls = 0
    /\ onPlantAdded = FALSE
    /\ onPlantRemoved = FALSE
    /\ addedCalls = <<>>
    /\ removedCalls = <<>>
    /\ lastCall = NoCall

\* setEnergyScale(v), called between two steps for the other Simulation
SetEnergyScale ==
    /\ pc = "tuned"
    /\ calls < MaxCalls
    /\ \E v \in ScaleDivs :
          /\ energyScaleDiv' = v
          /\ lastCall' = [op |-> "setEnergyScale", args |-> <<v>>, ret |-> <<>>]
    /\ UNCHANGED <<plants, twin, seeds, occupied, shadow, tick, deathCounts, nextPlantId,
                   pc, pi, rk, newSeeds, calls, config, handlers, addedCalls,
                   removedCalls>>

\* step(): computeLightAndEnergy(), reading the ENERGY_SCALE of its process
TunedLight ==
    /\ pc = "tuned"
    /\ calls < MaxCalls
    /\ LET lit == LightPassWith(plants, energyScaleDiv)
       IN  /\ shadow' = lit.shadow
           /\ plants' = lit.plants
    /\ twin' = LightPassWith(twin, ENERGY_SCALE_DIV).plants
    /\ tick' = tick + 1
    /\ pc' = "tuned_lit"
    /\ UNCHANGED <<energyScaleDiv, lastCall, seeds, occupied, deathCounts, nextPlantId,
                   pi, rk, newSeeds, calls, config, handlers, addedCalls,
                   removedCalls>>

\* step(): plant.tick(), with the same outcome of Math.random() in both processes
TunedTick ==
    /\ pc = "tuned_lit"
    /\ \E draw \in ToppleDraws(plants[1]) \cup ToppleDraws(twin[1]) :
          /\ plants' = <<Tick(plants[1], draw)>>
          /\ twin' = <<Tick(twin[1], draw)>>
    /\ calls' = calls + 1
    /\ pc' = "tuned"
    /\ UNCHANGED <<energyScaleDiv, lastCall, seeds, occupied, shadow, tick, deathCounts,
                   nextPlantId, pi, rk, newSeeds, config, handlers, addedCalls,
                   removedCalls>>

TuningNext == SetEnergyScale \/ TunedLight \/ TunedTick

TuningSpec == TuningInit /\ [][TuningNext]_vars

\* C35: two Simulation instances in the same process do not interfere:
\* changing a tunable constant for one simulation leaves the subsequent
\* step-by-step behaviour of the other unchanged, that is, the other
\* simulation goes through the states it goes through when no setter is called.
C35_OtherSimulationUnaffected ==
    pc \in {"tuned", "tuned_lit"} => plants = twin

====
